---- MODULE Spec2Model ----
(***************************************************************************)
(* Playback controller of the CD player (src/cd/cd_player.py) together     *)
(* with the LCD display loop (src/hardware/lcd_display.py) and the decoder *)
(* (mplayer) processes it supervises.                                      *)
(*                                                                         *)
(* Every controller method is cut into steps at its blocking calls         *)
(* (time.sleep, Popen.wait, the FIFO write, the cdparanoia subprocess).    *)
(* Between two steps of a method the environment may act: the decoder may  *)
(* exit, the clock may advance, a display loop may run one refresh.        *)
(*                                                                         *)
(* Three caller threads exist in the program: the D-Bus main loop ("disc", *)
(* cd_detector.py), the button poll thread ("poll", gpio_handler.py:69)    *)
(* and the single-click timer thread ("timer", gpio_handler.py:144).       *)
(* Under Spec the controller's operations are invoked one after another,   *)
(* and under SpecReload the change of the audio output is among them;      *)
(* under SpecThreads the threads invoke them concurrently (the code holds  *)
(* no lock).                                                               *)
(*                                                                         *)
(* Time is in whole seconds.  The clock starts at StartTime >= 1, as       *)
(* time.time() is never 0, so that None == 0 also models Python's          *)
(* truthiness test "if self.pause_start_time:".                            *)
(*                                                                         *)
(* SpecElapsed applies get_elapsed_time to stored time stamps on a clock   *)
(* of half seconds; SpecGesture is the play/pause button handler           *)
(* (src/hardware/gpio_handler.py) on a clock of 0.4 s units; SpecMenu is   *)
(* the button callbacks with the menu (src/menu/menu_system.py), one       *)
(* after another; SpecTracks adds disc insertion to them and SpecNav       *)
(* keeps to the gestures made inside the menu, with longer device lists.   *)
(* SpecSend follows send_command and SpecStop the display loop step by     *)
(* step.  SpecRace lets the menu handlers of the poll thread run while a   *)
(* single click on the timer thread waits for bluetoothctl; SpecMarker     *)
(* lets other processes rewrite the marker file; SpecLive is the           *)
(* sequential controller with the display loop and the steps of the        *)
(* operations scheduled fairly.                                            *)
(***************************************************************************)
EXTENDS Integers, FiniteSets, Sequences, TLC

\* ---------------------------------------------------------------- bounds
MaxTime         == 2   \* the clock runs StartTime..MaxTime
MaxTracks       == 2   \* largest track count cdparanoia reports
MaxPids         == 2   \* decoder processes existing at the same time
MaxDisplayLoops == 2   \* display threads existing at the same time
MaxConcurrentOps == 2  \* operations in progress at once under SpecThreads
MaxSubTime      == 4   \* the clock of SpecElapsed runs 1..MaxSubTime half seconds
MaxGestureTime  == 7   \* the clock of SpecGesture runs 1..MaxGestureTime
MaxPresses      == 2   \* presses of the play/pause button
MaxDevices      == 2   \* longest device list a scan returns under SpecNav
MaxWaits        == 1   \* waits of more than the menu timeout

\* ------------------------------------------------------- program constants
None          == 0     \* Python None (process handle, time stamps)
Unreadable    == -1    \* a marker file that is missing or holds no numeral
StartTime     == 1     \* first clock value
PROBE_POLLS   == 10    \* cd_player.py:268  for i in range(10)
PAUSE_POLL    == 2     \* cd_player.py:276  if i == 2
READY_CHECKS  == 2     \* cd_player.py:544  startup_check_count < 2
Unread        == -1    \* get_elapsed_time has not been called
\* gpio_handler.py on a clock of 0.4 s units
double_click_threshold == 1   \* gpio_handler.py:24   0.4 s
LONG_PRESS             == 5   \* gpio_handler.py:90, 102   2.0 s
MENU_TIMEOUT  == 30    \* menu_system.py:47  time.time() + 30
REFRESH       == 1     \* lcd_display.py:146  time.sleep(1)
LONG_WAIT     == MENU_TIMEOUT + REFRESH + 1

Threads     == {"disc", "poll", "timer"}
Pids        == 1..MaxPids
TrackCounts == 1..MaxTracks          \* results of detect_cd_tracks
TrackArgs   == 0..(MaxTracks + 1)    \* track numbers a caller may pass
ActionCounts == {1, 3}               \* bluetooth_menu.py:307-323
ScenarioDisc == {10}                 \* the ten-track disc of the scenario

VARIABLES
  \* CDPlayer fields (cd_player.py:19-33)
  mplayer_process, current_track, total_tracks, is_playing,
  current_track_start, pause_start_time, total_pause_duration,
  mplayer_ready, startup_check_count,
  \* LCDDisplay fields (lcd_display.py:19-25)
  lcd, stop_display, display_loops,
  \* environment: decoder processes, marker file, clock
  procs, track_file, now,
  \* callers: position and locals of each thread, last finished operation,
  \* how many operations may overlap, how many devices a scan finds at most
  thr, last, max_ops, max_list,
  \* the value the last call of get_elapsed_time returned
  elapsed,
  \* GPIOHandler fields (gpio_handler.py:19-27)
  last_play_pause_press_time, pending_single_click, single_click_timer,
  long_press_triggered,
  \* _monitor_buttons: its locals and its position (gpio_handler.py:74-75)
  prev_state, play_button_press_start, poll_pc, current_time,
  \* the play/pause pin, and the threading.Timer objects created so far
  button, timers,
  \* the hold the poll loop is in, the callbacks made for each hold, and the
  \* times at which clicks were handled
  cycle, emitted, clicks,
  \* MenuSystem fields (menu_system.py:14-38), and the lengths of the
  \* device lists of AudioManager and BluetoothMenu
  in_menu, in_submenu, in_action_menu, in_tracks_menu, current_menu_item,
  selected_track_index, selected_audio_device_index,
  selected_bluetooth_device_index, selected_action_index, menu_timeout,
  current_device, current_actions, available_devices, bluetooth_devices,
  \* the control FIFO (helpers.py FIFO_PATH): "fresh" once setup_fifo has
  \* made it anew, "used" once a decoder has been started on it
  fifo,
  \* whether _diagnose_mplayer_failure has run for the decoder the handle
  \* refers to
  diagnosed,
  \* whether the decoder the handle refers to is paused: mplayer starts
  \* playing and every pause command it reads toggles it
  decoder_paused,
  \* the delivery attempts of the call of send_command in progress or made
  \* last, when the call is followed step by step
  attempts,
  \* the display loops that have read stop_display and not yet finished
  \* update_display, when the loop is followed step by step
  updating

timing  == <<current_track_start, pause_start_time, total_pause_duration,
             mplayer_ready, startup_check_count>>
session == <<mplayer_process, current_track, total_tracks, is_playing, timing>>
display == <<lcd, stop_display, display_loops>>
env     == <<procs, track_file, now>>
\* what the steps of the playback controller leave alone
gpio    == <<last_play_pause_press_time, pending_single_click,
             single_click_timer, long_press_triggered, prev_state,
             play_button_press_start, poll_pc, current_time, button, timers,
             cycle, emitted, clicks>>
levels  == <<in_menu, in_submenu, in_action_menu, in_tracks_menu>>
selected == <<selected_track_index, selected_audio_device_index,
              selected_bluetooth_device_index, selected_action_index>>
lists   == <<current_device, current_actions, available_devices,
             bluetooth_devices>>
menu    == <<levels, current_menu_item, selected, lists, menu_timeout>>
scenario == <<max_ops, max_list>>
fine    == <<attempts, updating>>
outside == <<scenario, elapsed, gpio, menu, fine>>
io      == <<fifo, diagnosed, decoder_paused>>
frame   == <<outside, io>>
vars    == <<session, display, env, thr, last, frame>>

\* A thread that runs no operation.
\* was, pos and ph are the locals of on_audio_output_changed: the captured
\* play mode and elapsed time, and which of its loads is running.
\* caller is the branch of MenuSystem.submenu_select that called the
\* operation, res what the operation returned to it.
Idle == [pc |-> "idle", op |-> "none", arg |-> 0, i |-> 0,
         cont |-> "none", sent |-> "none", pid |-> None,
         was |-> FALSE, pos |-> 0, ph |-> "none",
         caller |-> "none", res |-> "none"]

NoOp == [op |-> "none", arg |-> 0, res |-> "none"]

\* The record of the operation that finished last.  It is kept only while
\* operations do not overlap.
Done(op, arg, res) ==
  IF max_ops = 1 THEN [op |-> op, arg |-> arg, res |-> res] ELSE NoOp

\* ------------------------------------------------------------ pure helpers

\* The range check without its upper limit.
ValidTrack_NoUpper(n) == 1 <= n

\* cd_player.py:227, 316
ValidTrack(n) == 1 <= n /\ n <= total_tracks

\* The liveness test that takes only a non-zero exit code for an exit.
is_mplayer_alive_nonzero ==
  /\ mplayer_process # None
  /\ procs[mplayer_process] \in {"alive", "exit0"}

\* cd_player.py:521-532: a handle is held and poll() returns None;
\* an exit code of 0 counts as dead too.
is_mplayer_alive ==
  /\ mplayer_process # None
  /\ procs[mplayer_process] = "alive"

\* cd_player.py:490-519: no attempt when the process is not alive, else the
\* direct write, then the write as the other user, then failure.
SendOutcomes ==
  IF is_mplayer_alive THEN {"direct", "fallback", "failed"} ELSE {"dead"}

\* The caller that ignores what send_command returns.
Delivered_Ignored(o) == TRUE

\* cd_player.py:278, 446: the truth value send_command returns
Delivered(o) == o \in {"direct", "fallback"}

\* The reset that forgets the accumulated pause duration.
reset_timing_keeps_pause ==
  /\ current_track_start' = None
  /\ pause_start_time' = None
  /\ UNCHANGED total_pause_duration
  /\ mplayer_ready' = FALSE
  /\ startup_check_count' = 0

\* cd_player.py:426-433
reset_timing ==
  /\ current_track_start' = None
  /\ pause_start_time' = None
  /\ total_pause_duration' = 0
  /\ mplayer_ready' = FALSE
  /\ startup_check_count' = 0

\* cd_player.py:478
AtFirstTrack == ~(current_track > 1)

\* The end-of-disc test that is off by one.
AtLastTrack_early == ~(current_track < total_tracks - 1)

\* cd_player.py:485
AtLastTrack == ~(current_track < total_tracks)

\* cd_player.py:555-562: the marker file is read back into current_track;
\* int() of its content, and 1 when the file cannot be opened or int()
\* rejects the content.
get_current_track == IF track_file = Unreadable THEN 1 ELSE track_file

\* The conversion that rounds to the nearest whole second.
int_nearest(x, per_second) ==
  IF x >= 0 THEN (2 * x + per_second) \div (2 * per_second)
  ELSE -((2 * (-x) + per_second) \div (2 * per_second))

\* cd_player.py:582  int(): a time of x units, per_second units to the
\* second, as whole seconds, truncated towards zero
int(x, per_second) ==
  IF x >= 0 THEN x \div per_second ELSE -((-x) \div per_second)

\* cd_player.py:564-582 on a clock of per_second units to the second
elapsed_seconds(per_second) ==
  IF ~mplayer_ready \/ current_track_start = None THEN 0
  ELSE LET total_elapsed == now - current_track_start
           minus_pauses  == total_elapsed - total_pause_duration
           e == IF ~is_playing /\ pause_start_time # None
                THEN minus_pauses - (now - pause_start_time)
                ELSE minus_pauses
           whole == int(e, per_second)
       IN IF whole > 0 THEN whole ELSE 0

\* cd_player.py:564-582 on the clock of whole seconds
get_elapsed_time == elapsed_seconds(1)

\* lowest process slot not in use
FreePids == {p \in Pids : procs[p] = "unborn"}
NewPid   == CHOOSE p \in FreePids : \A q \in FreePids : p <= q

\* ---------------------------------------------------------------- Init
Holds == 1..MaxPresses

\* gpio_handler.py:19-27, 74-75; the pin is pulled up (line 45)
InitGpio ==
  /\ last_play_pause_press_time = 0
  /\ pending_single_click = FALSE
  /\ single_click_timer = None
  /\ long_press_triggered = FALSE
  /\ prev_state = 1
  /\ play_button_press_start = 0
  /\ poll_pc = "read"
  /\ current_time = 0
  /\ button = 1
  /\ timers = [k \in Holds |-> [st |-> "unborn", due |-> 0]]
  /\ cycle = 0
  /\ emitted = [k \in Holds |-> [single |-> 0, double |-> 0, long |-> 0]]
  /\ clicks = <<>>

\* menu_system.py:14-38, bluetooth_menu.py:10, audio_manager.py:12.  The
\* scan of audio_manager.py:19 is taken to find no device: the menu scans
\* again (menu_system.py:69) before it reads the list.
InitMenu ==
  /\ in_menu = FALSE
  /\ in_submenu = FALSE
  /\ in_action_menu = FALSE
  /\ in_tracks_menu = FALSE
  /\ current_menu_item = 0
  /\ selected_track_index = 0
  /\ selected_audio_device_index = 0
  /\ selected_bluetooth_device_index = 0
  /\ selected_action_index = 0
  /\ menu_timeout = 0
  /\ current_device = None
  /\ current_actions = 0
  /\ available_devices = 0
  /\ bluetooth_devices = 0

InitCommon ==
  /\ mplayer_process = None
  /\ current_track = 1
  /\ total_tracks = 1
  /\ is_playing = FALSE
  /\ current_track_start = None
  /\ pause_start_time = None
  /\ total_pause_duration = 0
  /\ mplayer_ready = FALSE
  /\ startup_check_count = 0
  /\ lcd \in BOOLEAN              \* lcd_display.py:27-28, 51-54
  /\ stop_display = FALSE
  /\ display_loops = 0
  /\ procs = [p \in Pids |-> "unborn"]
  /\ track_file = 1               \* helpers.py:31-32
  /\ now = StartTime
  /\ thr = [t \in Threads |-> Idle]
  /\ last = NoOp
  /\ elapsed = Unread
  /\ InitGpio
  /\ InitMenu
  /\ fifo = "fresh"               \* cd_player.py:47
  /\ diagnosed = FALSE
  /\ decoder_paused = FALSE
  /\ attempts = <<>>
  /\ updating = 0

Init        == InitCommon /\ max_ops = 1 /\ max_list = 1
InitThreads == InitCommon /\ max_ops = MaxConcurrentOps /\ max_list = 1

\* A ready session at any point of its life, for the reads of
\* get_elapsed_time alone.  The clock and the time stamps are in half
\* seconds: the stamps are not later than the clock, pause_start_time may
\* be None, and the accumulated pauses are not longer than the clock.
InitElapsed ==
  /\ mplayer_process = 1
  /\ procs = [p \in Pids |-> IF p = 1 THEN "alive" ELSE "unborn"]
  /\ current_track = 1
  /\ total_tracks = 1
  /\ track_file = 1
  /\ mplayer_ready = TRUE
  /\ startup_check_count = READY_CHECKS
  /\ lcd = TRUE
  /\ stop_display = FALSE
  /\ display_loops = 1
  /\ thr = [t \in Threads |-> Idle]
  /\ last = NoOp
  /\ max_ops = 1
  /\ max_list = 1
  /\ elapsed = Unread
  /\ InitGpio
  /\ InitMenu
  /\ fifo = "fresh"               \* cd_player.py:47
  /\ diagnosed = FALSE
  /\ decoder_paused = FALSE
  /\ attempts = <<>>
  /\ updating = 0
  /\ now \in 1..MaxSubTime
  /\ current_track_start \in 1..now
  /\ pause_start_time \in {None} \cup (1..now)
  /\ total_pause_duration \in 0..now
  /\ is_playing \in BOOLEAN

\* ------------------------------------------------------- call and return

\* An operation may start on thread t.
CanCall(t) ==
  /\ thr[t].pc = "idle"
  /\ Cardinality({u \in Threads : thr[u].pc # "idle"}) < max_ops

\* Where thread t is once its operation has returned r: idle, or back in
\* MenuSystem.submenu_select when that called the operation
\* (menu_system.py:199, 208).
Back(t, r) ==
  IF thr[t].caller = "none" THEN Idle
  ELSE [Idle EXCEPT !.pc = "menu_return", !.caller = thr[t].caller,
                    !.res = r]

\* The operation of thread t returns res to the code that called it.
\* cd_player.py:71-87: a load that on_audio_output_changed called returns
\* into it: a successful reload goes on to the seek when the captured
\* position is positive, a failed one to load_track_paused of the captured
\* track, whose result ends the handler.
Return(t, res) ==
  IF thr[t].ph = "reload" /\ res = "ok" /\ thr[t].pos > 0
  THEN /\ thr' = [thr EXCEPT ![t].pc = "aoc_seek", ![t].ph = "none"]
       /\ UNCHANGED last
  ELSE IF thr[t].ph = "reload" /\ res # "ok"
  THEN /\ thr' = [thr EXCEPT ![t].pc = "sp_term", ![t].cont = "ltp_spawn",
                             ![t].ph = "fallback", ![t].i = 0,
                             ![t].sent = "none", ![t].pid = None]
       /\ UNCHANGED last
  ELSE LET r == IF thr[t].ph = "reload" THEN "reloaded"
                ELSE IF thr[t].ph = "fallback"
                THEN (IF res = "ok" THEN "fallback_ok" ELSE "fallback_failed")
                ELSE res
       IN /\ thr' = [thr EXCEPT ![t] = Back(t, r)]
          /\ last' = Done(thr[t].op, thr[t].arg, r)

Goto(t, pc) ==
  /\ thr' = [thr EXCEPT ![t].pc = pc]
  /\ UNCHANGED last

\* cd_player.py:227-230 and 316-319: the range check, then stop_playback.
\* op is the operation the caller thread runs, spawn the step that follows
\* stop_playback ("ltp_spawn" for load_track_paused, "lt_spawn" for
\* load_track).
EnterLoad(t, op, spawn, n) ==
  IF ValidTrack(n)
  THEN /\ thr' = [thr EXCEPT ![t] =
                    [Idle EXCEPT !.pc = "sp_term", !.op = op, !.arg = n,
                                 !.cont = spawn]]
       /\ UNCHANGED last
  ELSE /\ thr' = [thr EXCEPT ![t] = Idle]
       /\ last' = Done(op, n, "invalid")

\* lcd_display.py:121-132
start_display_thread ==
  IF lcd
  THEN /\ display_loops < MaxDisplayLoops
       /\ stop_display' = FALSE
       /\ display_loops' = display_loops + 1
       /\ UNCHANGED lcd
  ELSE UNCHANGED display

\* ------------------------------------------------------------ operations

\* cd_player.py:225-230  load_track_paused(track_number), called directly
load_track_paused(t, n) ==
  /\ CanCall(t)
  /\ EnterLoad(t, "load_track_paused", "ltp_spawn", n)
  /\ UNCHANGED <<session, display, env, frame>>

\* cd_player.py:314-319  load_track(track_number), called directly
\* (menu_system.py:199)
load_track(t, n) ==
  /\ CanCall(t)
  /\ EnterLoad(t, "load_track", "lt_spawn", n)
  /\ UNCHANGED <<session, display, env, frame>>

\* The next_track that loads the track paused, as load_cd_paused does.
next_track_loads_paused(t) ==
  /\ CanCall(t)
  /\ IF AtLastTrack
     THEN /\ last' = Done("next_track", 0, "boundary")
          /\ UNCHANGED thr
     ELSE EnterLoad(t, "next_track", "ltp_spawn", current_track + 1)
  /\ UNCHANGED <<session, display, env, frame>>

\* cd_player.py:483-488
next_track(t) ==
  /\ CanCall(t)
  /\ IF AtLastTrack
     THEN /\ last' = Done("next_track", 0, "boundary")
          /\ UNCHANGED thr
     ELSE EnterLoad(t, "next_track", "lt_spawn", current_track + 1)
  /\ UNCHANGED <<session, display, env, frame>>

\* cd_player.py:476-481
previous_track(t) ==
  /\ CanCall(t)
  /\ IF AtFirstTrack
     THEN /\ last' = Done("previous_track", 0, "boundary")
          /\ UNCHANGED thr
     ELSE EnterLoad(t, "previous_track", "lt_spawn", current_track - 1)
  /\ UNCHANGED <<session, display, env, frame>>

\* cd_player.py:403  stop_playback(), called directly (cd_detector.py:112)
stop_playback(t) ==
  /\ CanCall(t)
  /\ thr' = [thr EXCEPT ![t] =
               [Idle EXCEPT !.pc = "sp_term", !.op = "stop_playback",
                            !.cont = "return"]]
  /\ UNCHANGED <<session, display, env, last, frame>>

\* cd_player.py:645-648  shutdown() up to its stop_playback, after it has
\* told the button monitor to stop
shutdown(t) ==
  /\ CanCall(t)
  /\ thr' = [thr EXCEPT ![t] =
               [Idle EXCEPT !.pc = "sp_term", !.op = "shutdown",
                            !.cont = "shutdown_end"]]
  /\ UNCHANGED <<session, display, env, last, frame>>

\* cd_player.py:649-654, 624-625: stop_display_thread once more, the last
\* message, sleep(1), and sys.exit, which ends the daemon threads.
shutdown_end(t) ==
  /\ thr[t].pc = "shutdown_end"
  /\ stop_display' = TRUE
  /\ display_loops' = 0
  /\ updating' = 0
  /\ thr' = [thr EXCEPT ![t] = [Idle EXCEPT !.pc = "exited"]]
  /\ last' = Done("shutdown", 0, "done")
  /\ UNCHANGED <<session, lcd, env, scenario, elapsed, gpio, menu, io,
                 attempts>>

\* cd_player.py:180-182  load_cd_paused() up to its stop_playback
load_cd_paused(t) ==
  /\ CanCall(t)
  /\ thr' = [thr EXCEPT ![t] =
               [Idle EXCEPT !.pc = "sp_term", !.op = "load_cd_paused",
                            !.cont = "lcd_detect"]]
  /\ UNCHANGED <<session, display, env, last, frame>>

\* cd_player.py:51-64  on_audio_output_changed() up to its stop_playback
\* (audio_manager.py:216-218 calls it from set_device)
on_audio_output_changed(t) ==
  /\ CanCall(t)
  /\ IF ~is_mplayer_alive
     THEN /\ last' = Done("on_audio_output_changed", 0, "not_running")
          /\ UNCHANGED thr
     ELSE /\ thr' = [thr EXCEPT ![t] =
                       [Idle EXCEPT !.pc = "sp_term",
                                    !.op = "on_audio_output_changed",
                                    !.arg = current_track,
                                    !.was = is_playing,
                                    !.pos = get_elapsed_time,
                                    !.cont = "aoc_reload"]]
          /\ UNCHANGED last
  /\ UNCHANGED <<session, display, env, frame>>

\* The reload that loads paused whatever the captured play mode was.
aoc_reload_always_paused(t) ==
  /\ thr[t].pc = "aoc_reload"
  /\ IF ValidTrack(thr[t].arg)
     THEN /\ thr' = [thr EXCEPT
                       ![t].pc = "sp_term", ![t].ph = "reload",
                       ![t].cont = "ltp_spawn"]
          /\ UNCHANGED last
     ELSE /\ thr' = [thr EXCEPT ![t] = Back(t, "fallback_failed")]
          /\ last' = Done(thr[t].op, thr[t].arg, "fallback_failed")
  /\ UNCHANGED <<session, display, env, frame>>

\* cd_player.py:67-77: after sleep(0.5), load_track or load_track_paused of
\* the captured track up to its stop_playback.  A track the range check
\* rejects is rejected again by the load of line 87.
aoc_reload(t) ==
  /\ thr[t].pc = "aoc_reload"
  /\ IF ValidTrack(thr[t].arg)
     THEN /\ thr' = [thr EXCEPT
                       ![t].pc = "sp_term", ![t].ph = "reload",
                       ![t].cont = IF thr[t].was THEN "lt_spawn"
                                   ELSE "ltp_spawn"]
          /\ UNCHANGED last
     ELSE /\ thr' = [thr EXCEPT ![t] = Back(t, "fallback_failed")]
          /\ last' = Done(thr[t].op, thr[t].arg, "fallback_failed")
  /\ UNCHANGED <<session, display, env, frame>>

\* cd_player.py:74-75, 79-80: after sleep(2) the seek command is sent and
\* what send_command returns is dropped.
aoc_seek(t) ==
  /\ thr[t].pc = "aoc_seek"
  /\ \E o \in SendOutcomes :
       LET r == IF Delivered(o) THEN "sought" ELSE "seek_failed"
       IN /\ thr' = [thr EXCEPT ![t] = Back(t, r)]
          /\ last' = Done(thr[t].op, thr[t].arg, r)
  /\ UNCHANGED <<session, display, env, frame>>

\* cd_player.py:405-412 (lcd_display.py:134-139): the display loop is told
\* to stop, the decoder is sent SIGTERM and waited for.
stop_terminate(t) ==
  /\ thr[t].pc = "sp_term"
  /\ stop_display' = TRUE
  /\ procs' = IF is_mplayer_alive
              THEN [procs EXCEPT ![mplayer_process] = "killed"]
              ELSE procs
  /\ Goto(t, "sp_reset")
  /\ UNCHANGED <<session, lcd, display_loops, track_file, now, frame>>

\* cd_player.py:422-424: the handle is dropped and the session reset; the
\* slots of processes that ended and are no longer referenced become free.
stop_reset(t) ==
  /\ thr[t].pc = "sp_reset"
  /\ mplayer_process' = None
  /\ is_playing' = FALSE
  /\ reset_timing
  /\ procs' = [p \in Pids |-> IF procs[p] = "alive" THEN "alive" ELSE "unborn"]
  /\ diagnosed' = FALSE
  /\ decoder_paused' = FALSE
  /\ IF thr[t].cont = "return"
     THEN Return(t, "done")
     ELSE Goto(t, thr[t].cont)
  /\ UNCHANGED <<current_track, total_tracks, display, track_file, now,
                 outside, fifo>>

\* cd_player.py:89-99: the FIFO is removed if it exists and made anew.
setup_fifo == fifo' = "fresh"

\* cd_player.py:185-204: tracks detected, state reset, the FIFO set up, the
\* marker forced to 1, then load_track_paused(1) up to its stop_playback.
lcd_detect(t, n) ==
  /\ thr[t].pc = "lcd_detect"
  /\ total_tracks' = n
  /\ current_track' = 1
  /\ is_playing' = FALSE
  /\ reset_timing
  /\ setup_fifo
  /\ track_file' = 1
  /\ thr' = [thr EXCEPT ![t].pc = "sp_term", ![t].arg = 1,
                        ![t].cont = "ltp_spawn"]
  /\ UNCHANGED <<mplayer_process, display, procs, now, last, outside,
                 diagnosed, decoder_paused>>

\* cd_player.py:232-259, 321-345, 295-297, 361-363: opening the log file,
\* priming the sink or Popen raises; the except clause returns False.
spawn_raises(t) ==
  /\ thr[t].pc \in {"ltp_spawn", "lt_spawn"}
  /\ Return(t, "exception")
  /\ UNCHANGED <<session, display, env, frame>>

\* cd_player.py:252-264 and 338-350: Popen with -input file=FIFO_PATH, then
\* the session fields and the marker file.  playing is the value
\* is_playing gets, next the step the thread waits in afterwards.
start_decoder(t, playing, next) ==
  /\ FreePids # {}
  /\ procs' = [procs EXCEPT ![NewPid] = "alive"]
  /\ mplayer_process' = NewPid
  /\ current_track' = thr[t].arg
  /\ is_playing' = playing
  /\ reset_timing
  /\ track_file' = thr[t].arg
  /\ fifo' = "used"
  /\ diagnosed' = FALSE
  /\ decoder_paused' = FALSE
  /\ thr' = [thr EXCEPT ![t].pc = next, ![t].i = 0, ![t].pid = NewPid]
  /\ UNCHANGED <<total_tracks, display, now, last, outside>>

\* The paused load that marks the session as playing, as load_track does.
ltp_spawn_playing(t) ==
  /\ thr[t].pc = "ltp_spawn"
  /\ start_decoder(t, TRUE, "ltp_probe")

\* cd_player.py:252-266
ltp_spawn(t) ==
  /\ thr[t].pc = "ltp_spawn"
  /\ start_decoder(t, FALSE, "ltp_probe")

\* cd_player.py:365-401: the log tail, the FIFO's mode, the drive and the
\* audio device are printed.
diagnose_mplayer_failure == diagnosed' = TRUE

\* cd_player.py:268-276, 284: one poll of the liveness probe, after its
\* sleep(1).  A decoder found dead is diagnosed before False is returned.
\* A handle that another thread has set to None makes line 271 raise, which
\* the except clause turns into False.
ltp_probe(t) ==
  /\ thr[t].pc = "ltp_probe"
  /\ IF ~is_mplayer_alive
     THEN IF mplayer_process = None
          THEN Return(t, "exception") /\ UNCHANGED diagnosed
          ELSE diagnose_mplayer_failure /\ Return(t, "died")
     ELSE /\ IF thr[t].i = PAUSE_POLL
             THEN Goto(t, "ltp_pause")
             ELSE /\ thr' = [thr EXCEPT
                               ![t].i = @ + 1,
                               ![t].sent = "none",
                               ![t].pc = IF thr[t].i + 1 = PROBE_POLLS
                                         THEN "ltp_final" ELSE "ltp_probe"]
                  /\ UNCHANGED last
          /\ UNCHANGED diagnosed
  /\ UNCHANGED <<session, display, env, outside, fifo, decoder_paused>>

\* cd_player.py:509-511, 500-501: a pause command that was written to the
\* FIFO is read by the decoder, which toggles between playing and paused.
command_read(o) ==
  decoder_paused' = IF Delivered(o) THEN ~decoder_paused ELSE decoder_paused

\* cd_player.py:276-282: the initial pause command at poll 2
ltp_paused(t, o) ==
  /\ pause_start_time' = IF Delivered(o) THEN now ELSE pause_start_time
  /\ command_read(o)
  /\ thr' = [thr EXCEPT ![t].pc = "ltp_probe", ![t].i = @ + 1,
                        ![t].sent = o]

\* The same with send_command taken as one step.
ltp_pause(t) ==
  /\ thr[t].pc = "ltp_pause"
  /\ \E o \in SendOutcomes : ltp_paused(t, o)
  /\ UNCHANGED <<mplayer_process, current_track, total_tracks, is_playing,
                 current_track_start, total_pause_duration, mplayer_ready,
                 startup_check_count, display, env, last, outside, fifo,
                 diagnosed>>

\* cd_player.py:287-293: final verification
ltp_final(t) ==
  /\ thr[t].pc = "ltp_final"
  /\ IF is_mplayer_alive
     THEN /\ start_display_thread
          /\ Return(t, "ok")
     ELSE /\ Return(t, "died")
          /\ UNCHANGED display
  /\ UNCHANGED <<session, env, frame>>

\* cd_player.py:338-350
lt_spawn(t) ==
  /\ thr[t].pc = "lt_spawn"
  /\ start_decoder(t, TRUE, "lt_check")

\* cd_player.py:352-359: after sleep(2)
lt_check(t) ==
  /\ thr[t].pc = "lt_check"
  /\ IF is_mplayer_alive
     THEN /\ start_display_thread
          /\ Return(t, "ok")
     ELSE /\ Return(t, "died")
          /\ UNCHANGED display
  /\ UNCHANGED <<session, env, frame>>

\* cd_player.py:435-443
play_pause(t) ==
  /\ CanCall(t)
  /\ IF ~is_mplayer_alive
     THEN /\ last' = Done("play_pause", 0, "not_running")
          /\ UNCHANGED thr
     ELSE IF ~mplayer_ready
     THEN /\ last' = Done("play_pause", 0, "not_ready")
          /\ UNCHANGED thr
     ELSE /\ thr' = [thr EXCEPT ![t] =
                       [Idle EXCEPT !.pc = "pp_send", !.op = "play_pause"]]
          /\ UNCHANGED last
  /\ UNCHANGED <<session, display, env, frame>>

\* The resume that does not add the pause to total_pause_duration.
toggle_playing_no_sum ==
  IF is_playing
  THEN /\ pause_start_time' = now
       /\ is_playing' = FALSE
       /\ UNCHANGED total_pause_duration
  ELSE /\ pause_start_time' = None
       /\ is_playing' = TRUE
       /\ UNCHANGED total_pause_duration

\* The resume that leaves the pause stamp in place.
toggle_playing_keeps_stamp ==
  IF is_playing
  THEN /\ pause_start_time' = now
       /\ is_playing' = FALSE
       /\ UNCHANGED total_pause_duration
  ELSE /\ IF pause_start_time # None
          THEN total_pause_duration' =
                 total_pause_duration + (now - pause_start_time)
          ELSE UNCHANGED total_pause_duration
       /\ UNCHANGED pause_start_time
       /\ is_playing' = TRUE

\* cd_player.py:447-463: the bookkeeping of a delivered pause command
toggle_playing ==
  IF is_playing
  THEN /\ pause_start_time' = now
       /\ is_playing' = FALSE
       /\ UNCHANGED total_pause_duration
  ELSE /\ IF pause_start_time # None
          THEN /\ total_pause_duration' =
                    total_pause_duration + (now - pause_start_time)
               /\ pause_start_time' = None
          ELSE UNCHANGED <<pause_start_time, total_pause_duration>>
       /\ is_playing' = TRUE

\* cd_player.py:446-474: what play_pause does once send_command has come
\* back with outcome o
pp_sent(t, o) ==
  /\ command_read(o)
  /\ IF Delivered(o)
     THEN /\ toggle_playing
          /\ thr' = [thr EXCEPT ![t].pc = "pp_verify", ![t].sent = o]
          /\ UNCHANGED last
     ELSE /\ thr' = [thr EXCEPT ![t] = Idle]
          /\ last' = Done("play_pause", 0,
                           IF o = "dead" THEN "cmd_dead" ELSE "cmd_failed")
          /\ UNCHANGED <<is_playing, pause_start_time, total_pause_duration>>

\* cd_player.py:446-474: the pause command and its bookkeeping, with
\* send_command taken as one step
pp_send(t) ==
  /\ thr[t].pc = "pp_send"
  /\ \E o \in SendOutcomes : pp_sent(t, o)
  /\ UNCHANGED <<mplayer_process, current_track, total_tracks,
                 current_track_start, mplayer_ready, startup_check_count,
                 display, env, outside, fifo, diagnosed>>

\* cd_player.py:470-471: after sleep(0.3)
pp_verify(t) ==
  /\ thr[t].pc = "pp_verify"
  /\ Return(t, "ok")
  /\ UNCHANGED <<session, display, env, frame>>

\* ----------------------------------------------------------- send_command
\* send_command followed step by step, for the callers play_pause
\* (cd_player.py:446) and load_track_paused (line 278).

\* cd_player.py:497-503: open, write and flush succeed or one of them raises
WriteResults == {"ok", "raises"}

\* cd_player.py:507-516: sudo exits with 0, exits with another code, or
\* subprocess.run raises (the timeout of 3 s included)
SudoResults == {"ok", "nonzero", "raises"}

\* One delivery attempt: the way it was made and whether it succeeded.
Attempt(by, r) == [by |-> by, ok |-> r = "ok"]

\* send_command returns to the caller that was at step from.
sc_return(t, from, o) ==
  IF from = "ltp_pause"
  THEN ltp_paused(t, o) /\ UNCHANGED <<is_playing, total_pause_duration, last>>
  ELSE pp_sent(t, o)

\* send_command goes on to its step pc.
sc_goto(t, pc, from) ==
  /\ thr' = [thr EXCEPT ![t].pc = pc, ![t].cont = from]
  /\ UNCHANGED <<is_playing, pause_start_time, total_pause_duration, last,
                 decoder_paused>>

sc_frame ==
  UNCHANGED <<mplayer_process, current_track, total_tracks,
              current_track_start, mplayer_ready, startup_check_count,
              display, env, scenario, elapsed, gpio, menu, fifo, diagnosed,
              updating>>

\* cd_player.py:492-494: the liveness check at the start of send_command
sc_alive(t) ==
  /\ thr[t].pc \in {"pp_send", "ltp_pause"}
  /\ attempts' = <<>>
  /\ IF is_mplayer_alive
     THEN sc_goto(t, "sc_direct", thr[t].pc)
     ELSE sc_return(t, thr[t].pc, "dead")
  /\ sc_frame

\* The direct write that is followed by the other write whatever it did.
sc_direct_always_falls_back(t, r) ==
  /\ thr[t].pc = "sc_direct"
  /\ attempts' = Append(attempts, Attempt("direct", r))
  /\ sc_goto(t, "sc_sudo", thr[t].cont)
  /\ sc_frame

\* cd_player.py:496-504: the direct write to the FIFO
sc_direct(t, r) ==
  /\ thr[t].pc = "sc_direct"
  /\ attempts' = Append(attempts, Attempt("direct", r))
  /\ IF r = "ok"
     THEN sc_return(t, thr[t].cont, "direct")
     ELSE sc_goto(t, "sc_sudo", thr[t].cont)
  /\ sc_frame

\* cd_player.py:506-519: the write as the other user
sc_sudo(t, r) ==
  /\ thr[t].pc = "sc_sudo"
  /\ attempts' = Append(attempts, Attempt("sudo", r))
  /\ sc_return(t, thr[t].cont, IF r = "ok" THEN "fallback" ELSE "failed")
  /\ sc_frame

\* ----------------------------------------------------------- display loop

\* cd_player.py:534-553
check_mplayer_ready ==
  IF mplayer_ready
  THEN UNCHANGED <<mplayer_ready, startup_check_count, current_track_start>>
  ELSE IF startup_check_count < READY_CHECKS
  THEN /\ startup_check_count' = startup_check_count + 1
       /\ UNCHANGED <<mplayer_ready, current_track_start>>
  ELSE /\ mplayer_ready' = TRUE
       /\ current_track_start' =
            IF current_track_start = None THEN now ELSE current_track_start
       /\ UNCHANGED startup_check_count

\* cd_player.py:589-612: update_display with the menu closed reads the
\* marker and, while the decoder lives, advances the readiness check.
update_display ==
  /\ current_track' = get_current_track
  /\ IF is_mplayer_alive
     THEN check_mplayer_ready
     ELSE UNCHANGED <<mplayer_ready, startup_check_count, current_track_start>>
  /\ UNCHANGED <<mplayer_process, total_tracks, is_playing, pause_start_time,
                 total_pause_duration>>

\* lcd_display.py:141-146 with cd_player.py:585-612: one round of a display
\* loop.  It reads stop_display, and unless told to stop it runs
\* update_display, which reads the marker into current_track and, while the
\* decoder lives, advances the readiness check.  With the menu open
\* update_display returns at once (cd_player.py:587-588) and the round changes
\* nothing.
display_tick ==
  /\ display_loops > 0
  /\ IF stop_display
     THEN /\ display_loops' = display_loops - 1
          /\ UNCHANGED <<session>>
     ELSE /\ ~in_menu
          /\ update_display
          /\ UNCHANGED display_loops
  /\ UNCHANGED <<lcd, stop_display, env, thr, last, frame>>

\* The display loop followed step by step.
\* lcd_display.py:143: a loop that is not inside update_display reads
\* stop_display; told to stop it ends, else it calls update_display.
display_test ==
  /\ display_loops > updating
  /\ IF stop_display
     THEN display_loops' = display_loops - 1 /\ UNCHANGED updating
     ELSE updating' = updating + 1 /\ UNCHANGED display_loops
  /\ UNCHANGED <<session, lcd, stop_display, env, thr, last, scenario,
                 elapsed, gpio, menu, io, attempts>>

\* lcd_display.py:145-146: update_display runs to its end, and the loop
\* sleeps a second before it reads stop_display again.
display_update ==
  /\ updating > 0
  /\ updating' = updating - 1
  /\ IF in_menu THEN UNCHANGED session ELSE update_display
  /\ UNCHANGED <<display, env, thr, last, scenario, elapsed, gpio, menu, io,
                 attempts>>

\* ------------------------------------------------------------ environment

\* The decoder exits on its own: end of track (code 0) or an error (code 1).
mplayer_exits(p, code) ==
  /\ procs[p] = "alive"
  /\ procs' = [procs EXCEPT ![p] = code]
  /\ UNCHANGED <<session, display, track_file, now, thr, last, frame>>

\* time.time() advances
Tick ==
  /\ now < MaxTime
  /\ now' = now + 1
  /\ UNCHANGED <<session, display, procs, track_file, thr, last, frame>>

\* cd_player.py:603 (update_display), 59 (on_audio_output_changed): a
\* call of get_elapsed_time on the half-second clock
read_elapsed ==
  /\ elapsed = Unread
  /\ elapsed' = elapsed_seconds(2)
  /\ UNCHANGED <<session, display, env, thr, last, scenario, gpio, menu, io,
                 fine>>

\* ------------------------------------------------- play/pause button
\* The button handler on a clock of 0.4 s units.  Its callbacks into the
\* controller are recorded in emitted, by the hold they stem from; what
\* they do there is modelled by the operations above.

\* what the button handler leaves alone
player == <<session, display, procs, track_file, thr, last, scenario, elapsed,
            menu, io, fine>>

Emit(k, what) == emitted' = [emitted EXCEPT ![k][what] = @ + 1]

\* threading.Timer.cancel(): a timer that has not expired yet never runs
Cancelled(tm) ==
  IF tm # None /\ timers[tm].st = "waiting"
  THEN [timers EXCEPT ![tm].st = "cancelled"]
  ELSE timers

\* The cancellation that leaves the pending flag set.
cancel_pending_single_click_keeps_flag ==
  /\ timers' = Cancelled(single_click_timer)
  /\ single_click_timer' = None
  /\ UNCHANGED pending_single_click

\* gpio_handler.py:157-162
cancel_pending_single_click ==
  /\ timers' = Cancelled(single_click_timer)
  /\ single_click_timer' = None
  /\ pending_single_click' = FALSE

\* The user presses the button.  Each level of the pin lasts until the poll
\* loop, which samples every 0.05 s, has read it.
press ==
  /\ button = 1 /\ prev_state = 1 /\ poll_pc = "read"
  /\ cycle < MaxPresses
  /\ button' = 0
  /\ UNCHANGED <<player, now, last_play_pause_press_time,
                 pending_single_click, single_click_timer,
                 long_press_triggered, prev_state, play_button_press_start,
                 poll_pc, current_time, timers, cycle, emitted, clicks>>

\* The user lets go of the button.
release ==
  /\ button = 0 /\ prev_state = 0
  /\ button' = 1
  /\ UNCHANGED <<player, now, last_play_pause_press_time,
                 pending_single_click, single_click_timer,
                 long_press_triggered, prev_state, play_button_press_start,
                 poll_pc, current_time, timers, cycle, emitted, clicks>>

\* gpio_handler.py:86-89: the pin went down
press_edge ==
  /\ button = 0 /\ prev_state = 1
  /\ play_button_press_start' = now
  /\ long_press_triggered' = FALSE
  /\ cycle' = cycle + 1
  /\ prev_state' = 0
  /\ UNCHANGED <<last_play_pause_press_time, pending_single_click,
                 single_click_timer, poll_pc, current_time, timers, emitted,
                 clicks>>

\* The long press that fires in every round of the poll loop.
long_press_repeats ==
  /\ button = 0 /\ prev_state = 0
  /\ now - play_button_press_start > LONG_PRESS
  /\ emitted[cycle].long < MaxPresses
  /\ long_press_triggered' = TRUE
  /\ cancel_pending_single_click
  /\ Emit(cycle, "long")
  /\ UNCHANGED <<last_play_pause_press_time, prev_state,
                 play_button_press_start, poll_pc, current_time, cycle,
                 clicks>>

\* gpio_handler.py:90-96: the pin is still down after more than 2.0 s
long_press ==
  /\ button = 0 /\ prev_state = 0
  /\ now - play_button_press_start > LONG_PRESS
  /\ ~long_press_triggered
  /\ long_press_triggered' = TRUE
  /\ cancel_pending_single_click
  /\ Emit(cycle, "long")
  /\ UNCHANGED <<last_play_pause_press_time, prev_state,
                 play_button_press_start, poll_pc, current_time, cycle,
                 clicks>>

\* gpio_handler.py:97-105, 126: the pin went up; a hold shorter than 2.0 s
\* on which the long press did not fire enters _handle_play_pause_click,
\* which reads the time.
release_edge ==
  /\ button = 1 /\ prev_state = 0
  /\ IF now - play_button_press_start < LONG_PRESS /\ ~long_press_triggered
     THEN /\ poll_pc' = "click"
          /\ current_time' = now
          /\ clicks' = Append(clicks, now)
          /\ UNCHANGED prev_state
     ELSE /\ prev_state' = 1
          /\ UNCHANGED <<poll_pc, current_time, clicks>>
  /\ UNCHANGED <<last_play_pause_press_time, pending_single_click,
                 single_click_timer, long_press_triggered,
                 play_button_press_start, timers, cycle, emitted>>

\* gpio_handler.py:79-105, 117: one round of the poll loop
monitor_buttons ==
  /\ poll_pc = "read"
  /\ press_edge \/ long_press \/ release_edge
  /\ UNCHANGED <<player, now, button>>

\* gpio_handler.py:129-148, 117: the rest of _handle_play_pause_click
handle_play_pause_click ==
  /\ poll_pc = "click"
  /\ IF current_time - last_play_pause_press_time < double_click_threshold
     THEN /\ cancel_pending_single_click
          /\ Emit(cycle, "double")
          /\ last_play_pause_press_time' = 0
     ELSE /\ last_play_pause_press_time' = current_time
          /\ pending_single_click' = TRUE
          /\ timers' = [Cancelled(single_click_timer) EXCEPT ![cycle] =
                          [st |-> "waiting",
                           due |-> now + double_click_threshold]]
          /\ single_click_timer' = cycle
          /\ UNCHANGED emitted
  /\ prev_state' = 1
  /\ poll_pc' = "read"
  /\ UNCHANGED <<player, now, button, long_press_triggered,
                 play_button_press_start, current_time, cycle, clicks>>

\* threading.Timer.run and gpio_handler.py:152-153: the timer of hold k
\* expires on its own thread and tests the pending flag
timer_expires(k) ==
  /\ timers[k].st = "waiting" /\ now >= timers[k].due
  /\ IF pending_single_click
     THEN /\ pending_single_click' = FALSE
          /\ timers' = [timers EXCEPT ![k].st = "calling"]
     ELSE /\ timers' = [timers EXCEPT ![k].st = "done"]
          /\ UNCHANGED pending_single_click
  /\ UNCHANGED <<player, now, button, last_play_pause_press_time,
                 single_click_timer, long_press_triggered, prev_state,
                 play_button_press_start, poll_pc, current_time, cycle,
                 emitted, clicks>>

\* gpio_handler.py:154: the single-click callback
execute_pending_single_click(k) ==
  /\ timers[k].st = "calling"
  /\ timers' = [timers EXCEPT ![k].st = "done"]
  /\ Emit(k, "single")
  /\ UNCHANGED <<player, now, button, last_play_pause_press_time,
                 pending_single_click, single_click_timer,
                 long_press_triggered, prev_state, play_button_press_start,
                 poll_pc, current_time, cycle, clicks>>

\* time.time() advances by 0.4 s
gpio_tick ==
  /\ now < MaxGestureTime
  /\ now' = now + 1
  /\ UNCHANGED <<session, display, procs, track_file, thr, last, frame>>

\* ------------------------------------------------------------------ Next
\* The steps inside the operations, and the environment.  Discs are the
\* track counts detect_cd_tracks may report.
Steps(Discs) ==
  \/ \E t \in Threads : stop_terminate(t)
  \/ \E t \in Threads : stop_reset(t)
  \/ \E t \in Threads, n \in Discs : lcd_detect(t, n)
  \/ \E t \in Threads : spawn_raises(t)
  \/ \E t \in Threads : ltp_spawn(t)
  \/ \E t \in Threads : ltp_probe(t)
  \/ \E t \in Threads : ltp_pause(t)
  \/ \E t \in Threads : ltp_final(t)
  \/ \E t \in Threads : lt_spawn(t)
  \/ \E t \in Threads : lt_check(t)
  \/ \E t \in Threads : pp_send(t)
  \/ \E t \in Threads : pp_verify(t)
  \/ display_tick
  \/ \E p \in Pids, code \in {"exit0", "exit1"} : mplayer_exits(p, code)

\* Disc insertion on the main loop, Next on the poll thread and a single
\* click on the timer thread, overlapping.
NextThreads ==
  \/ load_cd_paused("disc")
  \/ next_track("poll")
  \/ play_pause("timer")
  \/ Steps(TrackCounts)

\* One ten-track disc: insertion, single click, Next, one after the other.
NextDisc10 ==
  \/ load_cd_paused("disc")
  \/ play_pause("timer")
  \/ next_track("poll")
  \/ Steps(ScenarioDisc)

Next ==
  \/ \E n \in TrackArgs : load_track_paused("disc", n)
  \/ \E n \in TrackArgs : load_track("timer", n)
  \/ next_track("poll")
  \/ previous_track("poll")
  \/ stop_playback("disc")
  \/ load_cd_paused("disc")
  \/ play_pause("timer")
  \/ Steps(TrackCounts)
  \/ Tick

\* The operations as the program's callers invoke them, one after the
\* other: discs are put in and taken out, the buttons are used, and the
\* audio output is changed (audio_manager.py:188-221 calls
\* on_audio_output_changed).  load_track_paused and load_track run as the
\* other operations call them.
NextReload ==
  \/ load_cd_paused("disc")
  \/ stop_playback("disc")
  \/ next_track("poll")
  \/ previous_track("poll")
  \/ play_pause("timer")
  \/ on_audio_output_changed("timer")
  \/ aoc_reload("timer")
  \/ aoc_seek("timer")
  \/ Steps(TrackCounts)
  \/ Tick

\* helpers.py:18, 31-33: the marker is /tmp/current_track.txt with mode
\* 0o666, so any process of the machine may rewrite or remove it.
MarkerContents == TrackArgs \cup {Unreadable}

marker_written_outside ==
  /\ \E c \in MarkerContents : track_file' = c
  /\ UNCHANGED <<session, display, procs, now, thr, last, frame>>

\* Discs and the three buttons, one operation at a time, while
\* the display loop runs and the marker file is changed from outside.
NextMarker ==
  \/ load_cd_paused("disc")
  \/ next_track("poll")
  \/ previous_track("poll")
  \/ play_pause("timer")
  \/ Steps(TrackCounts)
  \/ marker_written_outside

NextElapsed == read_elapsed

NextGesture ==
  \/ press
  \/ release
  \/ monitor_buttons
  \/ handle_play_pause_click
  \/ \E k \in Holds : timer_expires(k)
  \/ \E k \in Holds : execute_pending_single_click(k)
  \/ gpio_tick

Spec        == Init /\ [][Next]_vars
SpecElapsed == InitElapsed /\ [][NextElapsed]_vars
SpecGesture == Init /\ [][NextGesture]_vars
SpecThreads == InitThreads /\ [][NextThreads]_vars
SpecDisc10  == Init /\ [][NextDisc10]_vars
SpecReload  == Init /\ [][NextReload]_vars
SpecMarker  == Init /\ [][NextMarker]_vars

\* A disc, Next and the single click, one operation at a time, with the
\* display loop scheduled fairly: a display thread that exists is a daemon
\* thread that wakes every second (lcd_display.py:124-129, 141-146), so a
\* round that stays possible is eventually run, and a thread inside an
\* operation goes on to its next step, all waits of the operations being
\* bounded.  Nothing obliges the user to press a button or the decoder to
\* exit.
NextLive ==
  \/ load_cd_paused("disc")
  \/ next_track("poll")
  \/ play_pause("timer")
  \/ Steps(TrackCounts)

OperationStep ==
  \E t \in Threads :
    \/ stop_terminate(t) \/ stop_reset(t)
    \/ \E n \in TrackCounts : lcd_detect(t, n)
    \/ ltp_spawn(t) \/ ltp_probe(t) \/ ltp_pause(t) \/ ltp_final(t)
    \/ lt_spawn(t) \/ lt_check(t)
    \/ pp_send(t) \/ pp_verify(t)

SpecLive ==
  Init /\ [][NextLive]_vars /\ WF_vars(display_tick) /\ WF_vars(OperationStep)

\* A disc is put in and single clicks follow, one operation at a time, with
\* send_command followed step by step.
NextSend ==
  \/ load_cd_paused("disc")
  \/ play_pause("timer")
  \/ \E t \in Threads : stop_terminate(t)
  \/ \E t \in Threads : stop_reset(t)
  \/ \E t \in Threads, n \in TrackCounts : lcd_detect(t, n)
  \/ \E t \in Threads : spawn_raises(t)
  \/ \E t \in Threads : ltp_spawn(t)
  \/ \E t \in Threads : ltp_probe(t)
  \/ \E t \in Threads : ltp_final(t)
  \/ \E t \in Threads : sc_alive(t)
  \/ \E t \in Threads, r \in WriteResults : sc_direct(t, r)
  \/ \E t \in Threads, r \in SudoResults : sc_sudo(t, r)
  \/ \E t \in Threads : pp_verify(t)
  \/ display_tick
  \/ \E p \in Pids, code \in {"exit0", "exit1"} : mplayer_exits(p, code)
  \/ Tick

SpecSend    == Init /\ [][NextSend]_vars

\* Discs are put in and taken out and the program is shut down, with the
\* display loop followed step by step.
NextStop ==
  \/ load_cd_paused("disc")
  \/ stop_playback("disc")
  \/ shutdown("disc")
  \/ shutdown_end("disc")
  \/ \E t \in Threads : stop_terminate(t)
  \/ \E t \in Threads : stop_reset(t)
  \/ \E t \in Threads, n \in TrackCounts : lcd_detect(t, n)
  \/ \E t \in Threads : spawn_raises(t)
  \/ \E t \in Threads : ltp_spawn(t)
  \/ \E t \in Threads : ltp_probe(t)
  \/ \E t \in Threads : ltp_pause(t)
  \/ \E t \in Threads : ltp_final(t)
  \/ display_test
  \/ display_update
  \/ \E p \in Pids, code \in {"exit0", "exit1"} : mplayer_exits(p, code)

SpecStop    == Init /\ [][NextStop]_vars

\* ------------------------------------------------------------------ menu
\* The handlers CDPlayer registers for the buttons, and the MenuSystem
\* methods they call.  menu_items (menu_system.py:23-28) are numbered
\* 0 Tracks, 1 Audio Output, 2 Bluetooth and 3 Exit Menu.  A device list
\* and the action list are kept as their lengths, current_device as the
\* number of the device in its list.  MenuSystem is taken as constructed
\* with its three arguments.

MenuItems == 0..3

\* The menu level the four flags stand for.
Level ==
  IF in_action_menu THEN "ActionMenu"
  ELSE IF in_submenu THEN "Submenu"
  ELSE IF in_menu THEN "Root"
  ELSE "Closed"

\* The length of the list on display and the index selected in it
\* (menu_system.py:123-177: the branch Next and Previous take).
ListLength ==
  IF in_action_menu THEN current_actions
  ELSE IF in_tracks_menu THEN total_tracks
  ELSE IF in_submenu
  THEN (IF current_menu_item = 1 THEN available_devices
        ELSE IF current_menu_item = 2 THEN bluetooth_devices
        ELSE 0)
  ELSE 4

ListIndex ==
  IF in_action_menu THEN selected_action_index
  ELSE IF in_tracks_menu THEN selected_track_index
  ELSE IF in_submenu
  THEN (IF current_menu_item = 1 THEN selected_audio_device_index
        ELSE IF current_menu_item = 2 THEN selected_bluetooth_device_index
        ELSE 0)
  ELSE current_menu_item

\* menu_system.py:41-49
enter_menu ==
  /\ in_menu' = TRUE
  /\ in_submenu' = FALSE
  /\ in_action_menu' = FALSE
  /\ in_tracks_menu' = FALSE
  /\ current_menu_item' = 0
  /\ menu_timeout' = now + MENU_TIMEOUT
  /\ UNCHANGED <<selected, lists>>

\* menu_system.py:51-59
exit_menu ==
  /\ in_menu' = FALSE
  /\ in_submenu' = FALSE
  /\ in_action_menu' = FALSE
  /\ in_tracks_menu' = FALSE
  /\ menu_timeout' = 0
  /\ UNCHANGED <<current_menu_item, selected, lists>>

\* menu_system.py:97-103
exit_submenu ==
  /\ in_submenu' = FALSE
  /\ in_action_menu' = FALSE
  /\ in_tracks_menu' = FALSE
  /\ menu_timeout' = now + MENU_TIMEOUT
  /\ UNCHANGED <<in_menu, current_menu_item, selected, lists>>

\* menu_system.py:61-95  enter_submenu(submenu_type), item the number of
\* submenu_type.  The audio refresh (audio_manager.py:223-226, 71-82) and
\* the bluetooth scan (bluetooth_menu.py:14-105) find any number of
\* devices up to max_list; a scan that finds none, and a track list
\* without tracks, leave the submenu again through exit_submenu.
enter_submenu(item) ==
  /\ in_action_menu' = FALSE
  /\ menu_timeout' = now + MENU_TIMEOUT
  /\ UNCHANGED <<in_menu, current_menu_item, selected_action_index,
                 current_device, current_actions>>
  /\ IF item = 1
     THEN /\ in_submenu' = TRUE
          /\ in_tracks_menu' = FALSE
          /\ available_devices' \in 0..max_list
          /\ selected_audio_device_index' = 0
          /\ UNCHANGED <<selected_track_index, bluetooth_devices,
                         selected_bluetooth_device_index>>
     ELSE IF item = 2
     THEN /\ bluetooth_devices' \in 0..max_list
          /\ in_submenu' = (bluetooth_devices' > 0)
          /\ in_tracks_menu' = FALSE
          /\ selected_bluetooth_device_index' =
               IF bluetooth_devices' > 0 THEN 0
               ELSE selected_bluetooth_device_index
          /\ UNCHANGED <<selected_track_index, available_devices,
                         selected_audio_device_index>>
     ELSE IF item = 0
     THEN /\ in_submenu' = (total_tracks > 0)
          /\ in_tracks_menu' = (total_tracks > 0)
          /\ selected_track_index' =
               IF total_tracks > 0 THEN 0 ELSE selected_track_index
          /\ UNCHANGED <<available_devices, bluetooth_devices,
                         selected_audio_device_index,
                         selected_bluetooth_device_index>>
     ELSE /\ in_submenu' = TRUE
          /\ in_tracks_menu' = FALSE
          /\ UNCHANGED <<selected_track_index, available_devices,
                         bluetooth_devices, selected_audio_device_index,
                         selected_bluetooth_device_index>>

\* menu_system.py:105-112  enter_action_menu(device, actions) with the
\* selected bluetooth device and n actions
enter_action_menu(n) ==
  /\ in_action_menu' = TRUE
  /\ current_device' = selected_bluetooth_device_index + 1
  /\ current_actions' = n
  /\ selected_action_index' = 0
  /\ menu_timeout' = now + MENU_TIMEOUT
  /\ UNCHANGED <<in_menu, in_submenu, in_tracks_menu, current_menu_item,
                 selected_track_index, selected_audio_device_index,
                 selected_bluetooth_device_index, available_devices,
                 bluetooth_devices>>

\* menu_system.py:123-127 (d = 1) and 129-133 (d = -1)
menu_step(d) ==
  IF in_menu /\ ~in_submenu /\ ~in_action_menu /\ ~in_tracks_menu
  THEN /\ current_menu_item' = (current_menu_item + d) % 4
       /\ menu_timeout' = now + MENU_TIMEOUT
       /\ UNCHANGED <<levels, selected, lists>>
  ELSE UNCHANGED menu

\* menu_system.py:135-155 (d = 1) and 157-177 (d = -1): the index of the
\* list on display moves by d modulo the length of the list, an empty list
\* leaves it alone.
submenu_step(d) ==
  /\ UNCHANGED <<levels, current_menu_item, lists>>
  /\ IF in_action_menu
     THEN /\ IF current_actions > 0
             THEN /\ selected_action_index' =
                       (selected_action_index + d) % current_actions
                  /\ menu_timeout' = now + MENU_TIMEOUT
             ELSE UNCHANGED <<selected_action_index, menu_timeout>>
          /\ UNCHANGED <<selected_track_index, selected_audio_device_index,
                         selected_bluetooth_device_index>>
     ELSE IF in_tracks_menu
     THEN /\ IF total_tracks > 0
             THEN /\ selected_track_index' =
                       (selected_track_index + d) % total_tracks
                  /\ menu_timeout' = now + MENU_TIMEOUT
             ELSE UNCHANGED <<selected_track_index, menu_timeout>>
          /\ UNCHANGED <<selected_action_index, selected_audio_device_index,
                         selected_bluetooth_device_index>>
     ELSE IF in_submenu
     THEN /\ selected_audio_device_index' =
               IF current_menu_item = 1 /\ available_devices > 0
               THEN (selected_audio_device_index + d) % available_devices
               ELSE selected_audio_device_index
          /\ selected_bluetooth_device_index' =
               IF current_menu_item = 2 /\ bluetooth_devices > 0
               THEN (selected_bluetooth_device_index + d) % bluetooth_devices
               ELSE selected_bluetooth_device_index
          /\ menu_timeout' = now + MENU_TIMEOUT
          /\ UNCHANGED <<selected_track_index, selected_action_index>>
     ELSE UNCHANGED <<selected, menu_timeout>>

\* The selection that takes Exit Menu for a submenu.
menu_select_no_exit ==
  IF ~in_menu \/ in_submenu \/ in_action_menu \/ in_tracks_menu
  THEN UNCHANGED menu
  ELSE enter_submenu(current_menu_item)

\* menu_system.py:179-191
menu_select ==
  IF ~in_menu \/ in_submenu \/ in_action_menu \/ in_tracks_menu
  THEN UNCHANGED menu
  ELSE IF current_menu_item = 3 THEN exit_menu
  ELSE enter_submenu(current_menu_item)

\* The bluetooth action that closes the menu only when it succeeded.
execute_bluetooth_action_on_success(success) ==
  IF current_device = None \/ current_actions = 0 \/ ~success
  THEN UNCHANGED menu
  ELSE exit_menu

\* menu_system.py:242-261  execute_bluetooth_action(): without a device or
\* without actions it returns at once; else it runs the action, which
\* returns success or not (bluetooth_menu.py:122-275 catches what the
\* bluetooth tools raise), and ends in exit_menu.
execute_bluetooth_action(success) ==
  IF current_device = None \/ current_actions = 0
  THEN UNCHANGED menu
  ELSE exit_menu

\* A handler that runs on thread t from start to end within the menu and
\* leaves the player alone.
InMenu(t, op) ==
  /\ CanCall(t)
  /\ last' = Done(op, 0, Level)
  /\ UNCHANGED <<session, display, env, thr, scenario, elapsed, gpio, io, fine>>

\* The same for the single click that runs a bluetooth action: the record
\* keeps whether the action succeeded (1) or failed (0).
InAction(t, success) ==
  /\ CanCall(t)
  /\ last' = Done("on_play_pause_single_click", IF success THEN 1 ELSE 0,
                  Level)
  /\ UNCHANGED <<session, display, env, thr, scenario, elapsed, gpio, io, fine>>

\* The long press that opens Root from any depth.
on_menu_enter_always(t) ==
  /\ InMenu(t, "on_menu_enter")
  /\ enter_menu

\* cd_player.py:140-143
on_menu_enter(t) ==
  /\ InMenu(t, "on_menu_enter")
  /\ IF ~in_menu THEN enter_menu ELSE UNCHANGED menu

\* The double click that closes the whole menu from a submenu.
on_play_pause_double_click_closes(t) ==
  /\ InMenu(t, "on_play_pause_double_click")
  /\ IF in_menu THEN exit_menu ELSE UNCHANGED menu

\* cd_player.py:154-159
on_play_pause_double_click(t) ==
  /\ InMenu(t, "on_play_pause_double_click")
  /\ IF in_submenu THEN exit_submenu
     ELSE IF in_menu THEN exit_menu
     ELSE UNCHANGED menu

\* The same for Previous and Next: the record keeps the index they found.
InList(t, op) ==
  /\ CanCall(t)
  /\ last' = Done(op, ListIndex, Level)
  /\ UNCHANGED <<session, display, env, thr, scenario, elapsed, gpio, io, fine>>

\* cd_player.py:161-168
on_previous_button(t) ==
  IF in_submenu THEN InList(t, "on_previous_button") /\ submenu_step(-1)
  ELSE IF in_menu THEN InList(t, "on_previous_button") /\ menu_step(-1)
  ELSE previous_track(t)

\* The Next button that skips to the next track whatever the menu shows.
on_next_button_unrouted(t) == next_track(t)

\* cd_player.py:170-177
on_next_button(t) ==
  IF in_submenu THEN InList(t, "on_next_button") /\ submenu_step(1)
  ELSE IF in_menu THEN InList(t, "on_next_button") /\ menu_step(1)
  ELSE next_track(t)

\* menu_system.py:193-226  submenu_select(): the bluetooth action, which
\* ends in exit_menu (242-261); load_track of the selected track up to its
\* stop_playback; the audio device up to the sleep before set_device; the
\* action menu of a bluetooth device (bluetooth_menu.py:307-323 always
\* offers an action).
submenu_select(t) ==
  IF in_action_menu
  THEN \E success \in BOOLEAN :
         InAction(t, success) /\ execute_bluetooth_action(success)
  ELSE IF in_tracks_menu
  THEN /\ CanCall(t)
       /\ LET n == selected_track_index + 1
          IN IF ValidTrack(n)
             THEN /\ thr' = [thr EXCEPT ![t] =
                               [Idle EXCEPT !.pc = "sp_term",
                                            !.op = "load_track", !.arg = n,
                                            !.cont = "lt_spawn",
                                            !.caller = "tracks"]]
                  /\ UNCHANGED last
             ELSE /\ thr' = [thr EXCEPT ![t] =
                               [Idle EXCEPT !.pc = "menu_return",
                                            !.caller = "tracks",
                                            !.res = "invalid"]]
                  /\ last' = Done("load_track", n, "invalid")
       /\ UNCHANGED <<session, display, env, frame>>
  ELSE IF current_menu_item = 1 /\ available_devices > 0
  THEN /\ CanCall(t)
       /\ thr' = [thr EXCEPT ![t] =
                    [Idle EXCEPT !.pc = "set_device", !.caller = "audio"]]
       /\ UNCHANGED <<session, display, env, last, frame>>
  ELSE IF current_menu_item = 2 /\ bluetooth_devices > 0
  THEN /\ InMenu(t, "on_play_pause_single_click")
       /\ \E n \in ActionCounts : enter_action_menu(n)
  ELSE InMenu(t, "on_play_pause_single_click") /\ UNCHANGED menu

\* cd_player.py:145-152
on_play_pause_single_click(t) ==
  IF in_submenu THEN submenu_select(t)
  ELSE IF in_menu THEN InMenu(t, "on_play_pause_single_click") /\ menu_select
  ELSE play_pause(t)

\* audio_manager.py:188-221  set_device(device_id) calls
\* on_audio_output_changed (cd_player.py:51-64), which returns at once
\* without a decoder and else starts with stop_playback.
set_device(t) ==
  /\ thr[t].pc = "set_device"
  /\ IF ~is_mplayer_alive
     THEN /\ thr' = [thr EXCEPT ![t] = Back(t, "not_running")]
          /\ last' = Done("on_audio_output_changed", 0, "not_running")
     ELSE /\ thr' = [thr EXCEPT ![t] =
                       [Idle EXCEPT !.pc = "sp_term",
                                    !.op = "on_audio_output_changed",
                                    !.arg = current_track,
                                    !.was = is_playing,
                                    !.pos = get_elapsed_time,
                                    !.cont = "aoc_reload",
                                    !.caller = "audio"]]
          /\ UNCHANGED last
  /\ UNCHANGED <<session, display, env, frame>>

\* menu_system.py:199-205, 209-211: what submenu_select does once the call
\* has returned and it has slept a second.  A track that loaded closes the
\* menu, one that failed leaves the track list open; the audio submenu is
\* left whatever set_device did.
submenu_select_return(t) ==
  /\ thr[t].pc = "menu_return"
  /\ IF thr[t].caller = "tracks"
     THEN IF thr[t].res = "ok" THEN exit_menu ELSE UNCHANGED menu
     ELSE exit_submenu
  /\ thr' = [thr EXCEPT ![t] = Idle]
  /\ UNCHANGED <<session, display, env, last, scenario, elapsed, gpio, io,
                 fine>>

\* Nobody touches the player for longer than the menu timeout and a round
\* of the display loop.
long_wait ==
  /\ now + LONG_WAIT <= StartTime + MaxWaits * LONG_WAIT
  /\ now' = now + LONG_WAIT
  /\ UNCHANGED <<session, display, procs, track_file, thr, last, frame>>

\* The buttons with the menu, one handler after the other, on the one
\* track the player counts before a disc is detected (cd_player.py:23).
\* A spawn may fail; a decoder that runs ends only when it is stopped.
NextMenu ==
  \/ on_menu_enter("poll")
  \/ on_play_pause_single_click("timer")
  \/ on_play_pause_double_click("poll")
  \/ on_previous_button("poll")
  \/ on_next_button("poll")
  \/ set_device("timer")
  \/ submenu_select_return("timer")
  \/ aoc_reload("timer")
  \/ aoc_seek("timer")
  \/ \E t \in Threads : stop_terminate(t)
  \/ \E t \in Threads : stop_reset(t)
  \/ \E t \in Threads : spawn_raises(t)
  \/ \E t \in Threads : ltp_spawn(t)
  \/ \E t \in Threads : ltp_probe(t)
  \/ \E t \in Threads : ltp_pause(t)
  \/ \E t \in Threads : ltp_final(t)
  \/ \E t \in Threads : lt_spawn(t)
  \/ \E t \in Threads : lt_check(t)
  \/ \E t \in Threads : pp_send(t)
  \/ \E t \in Threads : pp_verify(t)
  \/ display_tick
  \/ long_wait

SpecMenu    == Init /\ [][NextMenu]_vars

\* The buttons with the menu while discs are put in, with no audio and no
\* bluetooth device around.
InitTracks == InitCommon /\ max_ops = 1 /\ max_list = 0

NextTracks ==
  \/ on_menu_enter("poll")
  \/ on_play_pause_single_click("timer")
  \/ on_play_pause_double_click("poll")
  \/ on_previous_button("poll")
  \/ on_next_button("poll")
  \/ submenu_select_return("timer")
  \/ load_cd_paused("disc")
  \/ \E t \in Threads, n \in TrackCounts : lcd_detect(t, n)
  \/ \E t \in Threads : stop_terminate(t)
  \/ \E t \in Threads : stop_reset(t)
  \/ \E t \in Threads : spawn_raises(t)
  \/ \E t \in Threads : ltp_spawn(t)
  \/ \E t \in Threads : ltp_probe(t)
  \/ \E t \in Threads : ltp_pause(t)
  \/ \E t \in Threads : ltp_final(t)
  \/ \E t \in Threads : lt_spawn(t)
  \/ \E t \in Threads : lt_check(t)
  \/ \E t \in Threads : pp_send(t)
  \/ \E t \in Threads : pp_verify(t)
  \/ display_tick

SpecTracks  == InitTracks /\ [][NextTracks]_vars

\* A single click that stays within the menu: anywhere in the open menu but
\* on a track of the track list and on an audio device.
ClickInMenu ==
  /\ in_menu
  /\ ~in_tracks_menu
  /\ ~(in_submenu /\ ~in_action_menu /\ current_menu_item = 1
        /\ available_devices > 0)

\* The gestures that stay within the menu, with device lists of any length
\* up to MaxDevices.
InitNav == InitCommon /\ max_ops = 1 /\ max_list = MaxDevices

previous_in_menu == in_menu /\ on_previous_button("poll")
next_in_menu     == in_menu /\ on_next_button("poll")
click_in_menu    == ClickInMenu /\ on_play_pause_single_click("timer")

NextNav ==
  \/ on_menu_enter("poll")
  \/ on_play_pause_double_click("poll")
  \/ previous_in_menu
  \/ next_in_menu
  \/ click_in_menu

SpecNav     == InitNav /\ [][NextNav]_vars

\* The single click on a device of the bluetooth list, followed step by
\* step.  menu_system.py:216-218 with cd_player.py:147-148: the handler has
\* read the flags and the selected device and calls get_available_actions,
\* which waits for bluetoothctl (bluetooth_menu.py:277-323).
InBluetoothList ==
  /\ in_submenu /\ ~in_action_menu /\ ~in_tracks_menu
  /\ current_menu_item = 2 /\ bluetooth_devices > 0

bt_actions_begin(t) ==
  /\ CanCall(t)
  /\ InBluetoothList
  /\ thr' = [thr EXCEPT ![t] =
               [Idle EXCEPT !.pc = "bt_actions",
                            !.op = "on_play_pause_single_click"]]
  /\ UNCHANGED <<session, display, env, last, frame>>

\* menu_system.py:219-220: the actions have come back; get_available_actions
\* never returns an empty list, and enter_action_menu opens the action list.
bt_actions_end(t) ==
  /\ thr[t].pc = "bt_actions"
  /\ \E n \in ActionCounts : enter_action_menu(n)
  /\ thr' = [thr EXCEPT ![t] = Idle]
  /\ last' = Done("on_play_pause_single_click", 0, "ActionMenu")
  /\ UNCHANGED <<session, display, env, scenario, elapsed, gpio, io, fine>>

\* The gestures that stay within the menu, the handlers of the poll thread
\* free to run while the timer thread waits for bluetoothctl.
InitRace == InitCommon /\ max_ops = MaxConcurrentOps /\ max_list = 1

click_elsewhere ==
  /\ ClickInMenu /\ ~InBluetoothList
  /\ on_play_pause_single_click("timer")

NextRace ==
  \/ on_menu_enter("poll")
  \/ on_play_pause_double_click("poll")
  \/ previous_in_menu
  \/ next_in_menu
  \/ click_elsewhere
  \/ bt_actions_begin("timer")
  \/ bt_actions_end("timer")

SpecRace    == InitRace /\ [][NextRace]_vars

\* ------------------------------------------------------------- properties

\* No operation is in progress.
AllIdle == \A t \in Threads : thr[t].pc = "idle"

\* Thread t is inside the liveness probe of load_track_paused.
InProbe(t) == thr[t].pc \in {"ltp_probe", "ltp_pause", "ltp_final"}

LoadOps == {"load_track_paused", "load_track"}

\* C1: load_track_paused(n) and load_track(n) with n < 1 or n > total_tracks
\* return failure before any side effect: a load never gets past its range
\* check with such an n, and the step that rejects it changes no session
\* field, no process, no display state and not the marker file.
C1_InvalidTrackRejected ==
  [][\A t \in Threads :
       /\ (thr[t].pc = "idle" /\ thr'[t].op \in LoadOps)
            => (1 <= thr'[t].arg /\ thr'[t].arg <= total_tracks)
       /\ (last' # last /\ last'.op \in LoadOps
             /\ (last'.arg < 1 \/ last'.arg > total_tracks))
            => /\ last'.res = "invalid"
               /\ UNCHANGED <<session, display, env, thr>>]_vars

\* A range error was reported while a decoder is alive and playing.
C1_Witness ==
  /\ last.op = "load_track" /\ last.res = "invalid"
  /\ last.arg > total_tracks
  /\ mplayer_process # None /\ procs[mplayer_process] = "alive"
  /\ is_playing /\ mplayer_ready

C3_FailureLeavesStopped ==
  (AllIdle /\ last.op \in LoadOps /\ last.res \notin {"ok", "invalid", "none"})
    => /\ ~is_playing
       /\ mplayer_process = None \/ procs[mplayer_process] # "alive"

\* C4: once the decoder has exited (code 0 or not) while load_track_paused
\* is in its liveness probe, the load returns failure at its next poll (the
\* pause command in flight at poll 2 fails first), and afterwards no live
\* decoder is held.  A load that on_audio_output_changed called returns its
\* failure into that handler, which then does not go on to the seek.
C4_ExitInProbeFails ==
  /\ [][\A t \in Threads :
          (InProbe(t) /\ thr'[t] # thr[t]
             /\ mplayer_process # None /\ procs[mplayer_process] # "alive")
            => IF thr[t].pc = "ltp_pause"
               THEN thr'[t].pc = "ltp_probe" /\ UNCHANGED session
               ELSE /\ display_loops' = display_loops
                    /\ IF thr[t].ph = "none"
                       THEN thr'[t].pc = "idle" /\ last'.res = "died"
                       ELSE /\ thr'[t].pc # "aoc_seek"
                            /\ thr'[t].pc = "idle"
                                 => last'.res = "fallback_failed"]_vars
  /\ [](AllIdle /\ last.op \in {"load_track_paused", "load_cd_paused"}
          /\ last.res = "died"
          => mplayer_process # None /\ procs[mplayer_process] # "alive")

\* load_track_paused failed on a decoder that exited with code 0.
C4_Witness ==
  /\ AllIdle /\ last.op = "load_track_paused" /\ last.res = "died"
  /\ mplayer_process # None /\ procs[mplayer_process] = "exit0"

\* Thread t is inside a load whose decoder is the one currently held: the
\* probe of load_track_paused or the two-second check of load_track.
Loading(t) ==
  /\ thr[t].pc \in {"ltp_probe", "ltp_pause", "ltp_final", "lt_check"}
  /\ thr[t].pid = mplayer_process

\* C5: a play_pause invoked while the load of the current decoder has not
\* returned is refused as not ready: it never gets to send its command.
C5_NotReadyWhileLoading ==
  [][\A u \in Threads :
       (thr[u].pc = "idle" /\ thr'[u].pc = "pp_send")
         => ~(\E t \in Threads : Loading(t))]_vars

\* C6: a play_pause whose command is delivered flips is_playing; pausing
\* sets pause_start_time to now; resuming adds now - pause_start_time to
\* total_pause_duration and clears pause_start_time.
C6_ToggleBookkeeping ==
  [][\A t \in Threads :
       (thr[t].pc = "pp_send" /\ thr'[t].pc = "pp_verify")
         => /\ thr'[t].sent \in {"direct", "fallback"}
            /\ is_playing' = ~is_playing
            /\ is_playing
                 => /\ pause_start_time' = now
                    /\ total_pause_duration' = total_pause_duration
            /\ (~is_playing /\ pause_start_time # None)
                 => /\ total_pause_duration' =
                         total_pause_duration + (now - pause_start_time)
                    /\ pause_start_time' = None]_vars

\* A resume has just added a pause of at least one second.
C6_Witness ==
  \E t \in Threads :
    /\ thr[t].pc = "pp_verify" /\ is_playing
    /\ total_pause_duration > 0 /\ pause_start_time = None

\* C7: a pause command that send_command reports as failed (both attempts
\* failed, or the decoder was gone) leaves is_playing, pause_start_time and
\* total_pause_duration as they were, in play_pause and in the initial pause
\* of load_track_paused.
C7_FailedCommandNoChange ==
  [][\A t \in Threads :
       (/\ thr[t].pc \in {"pp_send", "ltp_pause"}
        /\ thr'[t].pc # thr[t].pc
        /\ thr'[t].sent \notin {"direct", "fallback"})
       => /\ UNCHANGED <<is_playing, pause_start_time, total_pause_duration>>
          /\ thr[t].pc = "pp_send"
               => /\ thr'[t].pc = "idle"
                  /\ last'.res \in {"cmd_failed", "cmd_dead"}]_vars

\* play_pause on a playing, ready session failed to deliver its command and
\* the session still counts as playing.
C7_Witness ==
  /\ AllIdle /\ last.op = "play_pause" /\ last.res = "cmd_failed"
  /\ is_playing /\ mplayer_ready /\ pause_start_time = None

\* C8: on a ten-track disc, the play_pause that follows a successful paused
\* load of track 1 leaves is_playing True, and the next_track that follows a
\* play_pause on track 1 leaves current_track = 2.
C8_Scenario ==
  [][/\ (/\ total_tracks = 10
         /\ last.op \in {"load_cd_paused", "load_track_paused"}
         /\ last.arg = 1 /\ last.res = "ok"
         /\ last'.op = "play_pause")
        => is_playing'
     /\ (/\ total_tracks = 10
         /\ last.op = "play_pause" /\ last.res = "ok"
         /\ last'.op = "next_track" /\ last'.arg = 2)
        => current_track' = 2]_vars

\* The step repeats the call of menu handler op that was made last, at the
\* same menu level: the record stays and the menu changes.
Repeated(op) ==
  /\ last' = last /\ last.op = op
  /\ thr' = thr /\ menu' # menu

\* The step is a call of operation op: a thread enters it, or it returns at
\* once and only the record of the last operation changes.
Called(op) ==
  \/ \E t \in Threads : thr[t].pc = "idle" /\ thr'[t].op = op
  \/ thr' = thr /\ last' # last /\ last'.op = op

\* The step takes a thread to the start of load_track(n), past its range
\* check.
EntersLoadTrack(n) ==
  \E t \in Threads :
    /\ thr[t].pc = "idle" /\ thr'[t].pc = "sp_term"
    /\ thr'[t].cont = "lt_spawn" /\ thr'[t].arg = n

\* C9: next_track on the last track and previous_track on the first one
\* change nothing; elsewhere the thread enters load_track with
\* current_track + 1, respectively current_track - 1.
C9_BoundaryNoOp ==
  [][/\ Called("next_track")
          => IF current_track = total_tracks
             THEN UNCHANGED <<session, display, env, thr>>
             ELSE current_track < total_tracks
                    => EntersLoadTrack(current_track + 1)
     /\ Called("previous_track")
          => IF current_track = 1
             THEN UNCHANGED <<session, display, env, thr>>
             ELSE current_track > 1
                    => EntersLoadTrack(current_track - 1)]_vars

\* next_track was refused on the last track of a disc of several tracks
\* while the decoder plays.
C9_Witness ==
  /\ AllIdle /\ last.op = "next_track" /\ last.res = "boundary"
  /\ total_tracks > 1 /\ current_track = total_tracks
  /\ mplayer_process # None /\ procs[mplayer_process] = "alive" /\ is_playing

\* C10: when stop_playback returns, no handle is held, is_playing is False
\* and the timing fields are reset; a stop_playback that follows a
\* stop_playback changes no session field in any of its steps.
C10_StopIdempotent ==
  [][\A t \in Threads :
       /\ (thr[t].op = "stop_playback" /\ thr'[t].pc = "idle")
            => /\ mplayer_process' = None
               /\ is_playing' = FALSE
               /\ current_track_start' = None
               /\ pause_start_time' = None
               /\ total_pause_duration' = 0
               /\ mplayer_ready' = FALSE
               /\ startup_check_count' = 0
       /\ (last.op = "stop_playback" /\ thr'[t].op = "stop_playback")
            => UNCHANGED session
       /\ (last.op = "stop_playback" /\ thr[t].op = "stop_playback")
            => UNCHANGED session]_vars

\* The second of two stop_playback calls is about to return; the first one
\* ended a decoder.
C10_Witness ==
  \E t \in Threads :
    /\ thr[t].op = "stop_playback" /\ thr[t].pc = "sp_reset"
    /\ last.op = "stop_playback"

\* C11: on_audio_output_changed captures the track c and the play mode p of
\* the live session it is called on; when its reload succeeds it returns
\* with current_track = c and is_playing = p; and the seek that follows a
\* successful reload ends the handler whatever send_command returns, with no
\* session field changed and no further load.
C11_ReloadKeepsTrackAndMode ==
  [][\A t \in Threads :
       /\ (thr[t].pc = "idle" /\ thr'[t].op = "on_audio_output_changed")
            => /\ mplayer_process # None /\ procs[mplayer_process] = "alive"
               /\ thr'[t].arg = current_track
               /\ thr'[t].was = is_playing
       /\ (/\ thr[t].op = "on_audio_output_changed" /\ thr'[t].pc = "idle"
           /\ last'.res \in {"reloaded", "sought", "seek_failed"})
            => /\ current_track' = thr[t].arg
               /\ is_playing' = thr[t].was
       /\ (thr[t].pc = "aoc_seek" /\ thr'[t] # thr[t])
            => /\ thr'[t].pc = "idle"
               /\ last'.res \in {"sought", "seek_failed"}
               /\ UNCHANGED session]_vars

\* A playing session on a track other than the first was reloaded and is
\* playing again, although the seek command could not be delivered to the
\* live decoder.
C11_Witness ==
  /\ AllIdle /\ last.op = "on_audio_output_changed"
  /\ last.res = "seek_failed" /\ last.arg > 1
  /\ current_track = last.arg /\ is_playing
  /\ mplayer_process # None /\ procs[mplayer_process] = "alive"

C13_ElapsedMonotoneAndFrozen ==
  [][/\ (now' > now /\ is_playing)
          => get_elapsed_time' >= get_elapsed_time
     /\ (now' > now /\ ~is_playing)
          => get_elapsed_time' = get_elapsed_time
     /\ (\E t \in Threads :
           /\ thr[t].pc = "pp_send" /\ thr'[t].pc = "pp_verify"
           /\ ~is_playing)
          => get_elapsed_time' = get_elapsed_time]_vars

\* C14: for every clock value, track start, accumulated pause, pause stamp
\* and play mode of a ready session, get_elapsed_time() returns the whole
\* seconds, rounded down, of max(0, (now - current_track_start)
\* - total_pause_duration - (now - pause_start_time if the session is not
\* playing and a pause stamp is set, else 0)).
C14_ElapsedFormula ==
  elapsed # Unread
    => LET running == IF ~is_playing /\ pause_start_time # None
                      THEN now - pause_start_time ELSE 0
           x == (now - current_track_start) - total_pause_duration - running
           clamped == IF x > 0 THEN x ELSE 0
       IN \E q \in 0..MaxSubTime :
            /\ elapsed = q
            /\ 2 * q <= clamped /\ clamped < 2 * (q + 1)

\* get_elapsed_time returned one second for a paused session whose time
\* played is one and a half seconds.
C14_Witness ==
  /\ elapsed = 1 /\ ~is_playing /\ pause_start_time # None
  /\ (pause_start_time - current_track_start) - total_pause_duration = 3

\* C15: when on_audio_output_changed returns after a reload of a session
\* whose captured elapsed time E was positive and after the seek to E was
\* delivered, get_elapsed_time() is not below E.
C15_ElapsedContinuesAfterReload ==
  [][\A t \in Threads :
       (/\ thr[t].pc = "aoc_seek" /\ thr'[t].pc = "idle"
        /\ thr[t].pos > 0 /\ last'.res = "sought")
         => get_elapsed_time' >= thr[t].pos]_vars

\* Callbacks of one kind made so far, over all holds.
Total(what) ==
  LET f[k \in 0..MaxPresses] ==
        IF k = 0 THEN 0 ELSE f[k - 1] + emitted[k][what]
  IN f[MaxPresses]

\* The poll loop is between two rounds and no timer is waiting or running.
Quiet ==
  /\ poll_pc = "read"
  /\ \A k \in Holds : timers[k].st \notin {"waiting", "calling"}

\* C16: once two short holds of the play/pause button have been handled,
\* with the second click read less than 0.4 s after the first, and the
\* handler has come to rest, exactly one double-click callback and no
\* single-click callback have been made.
C16_TwoFastClicksOneDouble ==
  (/\ Len(clicks) = 2 /\ cycle = 2 /\ Quiet
   /\ clicks[2] - clicks[1] < double_click_threshold)
    => Total("double") = 1 /\ Total("single") = 0

\* C17: once two short holds of the play/pause button have been handled,
\* with the second click read more than 0.4 s after the first, and the
\* handler has come to rest, exactly two single-click callbacks and no
\* double-click callback have been made.
C17_TwoSlowClicksTwoSingles ==
  (/\ Len(clicks) = 2 /\ cycle = 2 /\ Quiet
   /\ clicks[2] - clicks[1] > double_click_threshold)
    => Total("single") = 2 /\ Total("double") = 0

\* C18: the round of the poll loop that reads the release of a hold on
\* which the long press fired makes no callback, does not enter the click
\* handling and touches neither the flag, the timers nor the time of the
\* last click; and from the long press until the next press no single
\* click is pending: the flag is clear and no timer waits, also when a
\* click handled before had left its timer waiting.
C18_LongPressReleaseEmitsNothing ==
  /\ [][(/\ poll_pc = "read" /\ button = 1 /\ prev_state = 0
          /\ long_press_triggered /\ prev_state' = 1)
         => /\ poll_pc' = "read"
            /\ UNCHANGED <<emitted, timers, pending_single_click,
                           single_click_timer, last_play_pause_press_time,
                           clicks>>]_vars
  /\ [](long_press_triggered
          => /\ ~pending_single_click
             /\ single_click_timer = None
             /\ \A k \in Holds : timers[k].st # "waiting")

\* The second hold was a long press that found the timer of the first
\* click still waiting and cancelled it, and it has been released.
C18_Witness ==
  /\ cycle = 2 /\ long_press_triggered /\ emitted[2].long = 1
  /\ button = 1 /\ prev_state = 1 /\ poll_pc = "read"
  /\ Len(clicks) = 1 /\ timers[1].st = "cancelled"
  /\ Total("single") = 0 /\ Total("double") = 0

\* C19: for every hold, the single-click, double-click and long-press
\* callbacks that stem from it number at most one in all; a hold that left
\* a timer made neither a double-click nor a long-press callback; and right
\* after a double-click or long-press callback the pending flag is clear,
\* no timer is referenced and none is waiting.
C19_OneResultPerHold ==
  /\ [](\A k \in Holds :
          /\ emitted[k].single + emitted[k].double + emitted[k].long <= 1
          /\ timers[k].st # "unborn"
               => emitted[k].double = 0 /\ emitted[k].long = 0)
  /\ [][(\E k \in Holds : \/ emitted'[k].double # emitted[k].double
                          \/ emitted'[k].long # emitted[k].long)
         => /\ ~pending_single_click'
            /\ single_click_timer' = None
            /\ \A k \in Holds : timers'[k].st # "waiting"]_vars

\* The first hold ended in a single click, the second was a long press.
C19_Witness ==
  /\ emitted[1] = [single |-> 1, double |-> 0, long |-> 0]
  /\ emitted[2] = [single |-> 0, double |-> 0, long |-> 1]

\* C20: a double click pops exactly one menu level: from a submenu of any
\* kind or from the action menu the menu goes to Root, from Root it goes to
\* Closed, and with the menu closed it changes neither the menu nor the
\* playback state.
C20_DoubleClickPopsOneLevel ==
  [][Called("on_play_pause_double_click") =>
       IF in_submenu \/ in_action_menu \/ in_tracks_menu
       THEN in_menu' /\ ~in_submenu' /\ ~in_action_menu' /\ ~in_tracks_menu'
       ELSE IF in_menu
       THEN ~in_menu' /\ ~in_submenu' /\ ~in_action_menu' /\ ~in_tracks_menu'
       ELSE UNCHANGED <<menu, session, display, env, thr>>]_vars

\* A double click in the action menu of a bluetooth device has brought the
\* menu back to Root.
C20_Witness ==
  /\ AllIdle /\ last.op = "on_play_pause_double_click"
  /\ last.res = "ActionMenu"
  /\ in_menu /\ ~in_submenu /\ ~in_action_menu /\ ~in_tracks_menu
  /\ current_menu_item = 2

\* C21: a long press with the menu closed opens Root with item 0 selected;
\* with the menu open at any depth it leaves every menu field unchanged
\* (the depth flags, the selected indices, the timeout).
C21_LongPressOpensRootOnly ==
  [][Called("on_menu_enter") =>
       IF ~in_menu
       THEN /\ in_menu' /\ ~in_submenu' /\ ~in_action_menu' /\ ~in_tracks_menu'
            /\ current_menu_item' = 0
       ELSE UNCHANGED menu]_vars

\* A long press in the action menu, later than the last navigation, left
\* the menu as it was.
C21_Witness ==
  /\ AllIdle /\ last.op = "on_menu_enter" /\ last.res = "ActionMenu"
  /\ in_action_menu /\ menu_timeout < now + MENU_TIMEOUT

\* C22: a single click in the action menu runs the selected bluetooth
\* action and leaves the menu closed, whether the action succeeded or
\* failed.
C22_ActionClickClosesMenu ==
  [][(Called("on_play_pause_single_click") /\ in_action_menu) =>
       (~in_menu' /\ ~in_submenu' /\ ~in_action_menu' /\ ~in_tracks_menu')]_vars

\* A bluetooth action that failed has closed the menu.
C22_Witness ==
  /\ AllIdle /\ last.op = "on_play_pause_single_click"
  /\ last.res = "ActionMenu" /\ last.arg = 0
  /\ ~in_menu /\ ~in_submenu /\ ~in_action_menu /\ ~in_tracks_menu

\* C23: whenever the menu is open at any depth and 30 s pass without a
\* navigation action, the menu collapses to Closed: an open menu is never
\* found later than one round of the display loop after its timeout.
C23_MenuClosesOnTimeout ==
  in_menu => now <= menu_timeout + REFRESH

\* The index that follows i, and the one before it, in the cycle 0..n-1.
Succ(i, n) == IF i = n - 1 THEN 0 ELSE i + 1
Pred(i, n) == IF i = 0 THEN n - 1 ELSE i - 1

\* C24: in the list on display (Root with its 4 items, a submenu, the
\* action list) the selected index always lies in 0..n-1 for a list of
\* length n > 0, Next moves it to the following index of the cycle and
\* Previous to the one before, so that n Next return it to where it was
\* and Previous undoes Next; on an empty list both leave it unchanged.
C24_IndexCycles ==
  /\ []((in_menu /\ ListLength > 0) => ListIndex \in 0..(ListLength - 1))
  /\ [][(Called("on_next_button") /\ in_menu) =>
          ListIndex' = IF ListLength > 0 THEN Succ(ListIndex, ListLength)
                       ELSE ListIndex]_vars
  /\ [][(Called("on_previous_button") /\ in_menu) =>
          ListIndex' = IF ListLength > 0 THEN Pred(ListIndex, ListLength)
                       ELSE ListIndex]_vars

\* C25: a single click at Root moves to the submenu of the highlighted item
\* with its index reset to 0: Tracks enters the track list when
\* total_tracks > 0 and else stays at Root, Bluetooth stays at Root when
\* the scan found no device, Exit Menu closes the menu.
C25_RootClickEntersSubmenu ==
  [][((Called("on_play_pause_single_click")
         \/ Repeated("on_play_pause_single_click")) /\ Level = "Root") =>
       LET AtRoot == in_menu' /\ ~in_submenu' /\ ~in_action_menu'
                       /\ ~in_tracks_menu'
           InSub(tracks) == in_menu' /\ in_submenu' /\ ~in_action_menu'
                              /\ in_tracks_menu' = tracks
       IN /\ current_menu_item' = current_menu_item
          /\ current_menu_item = 0 =>
               IF total_tracks > 0
               THEN InSub(TRUE) /\ selected_track_index' = 0
               ELSE AtRoot
          /\ current_menu_item = 1 =>
               InSub(FALSE) /\ selected_audio_device_index' = 0
          /\ current_menu_item = 2 =>
               IF bluetooth_devices' > 0
               THEN InSub(FALSE) /\ selected_bluetooth_device_index' = 0
               ELSE AtRoot
          /\ current_menu_item = 3 =>
               (~in_menu' /\ ~in_submenu' /\ ~in_action_menu'
                  /\ ~in_tracks_menu')]_vars

\* The audio submenu has just been entered with two devices and shows the
\* first, while the bluetooth list keeps its second device selected.
C25_Witness ==
  /\ last.op = "on_play_pause_single_click" /\ last.res = "Root"
  /\ in_submenu /\ ~in_action_menu /\ current_menu_item = 1
  /\ available_devices = 2 /\ selected_audio_device_index = 0
  /\ selected_bluetooth_device_index = 1

\* C26: gestures are routed by the menu depth: previous_track, next_track
\* and play_pause are only called with the menu closed, and then no menu
\* field changes; with the menu closed only a long press changes the menu.
C26_GesturesRoutedByDepth ==
  [][/\ (Called("previous_track") \/ Called("next_track")
            \/ Called("play_pause")) =>
          (~in_menu /\ UNCHANGED menu)
     /\ (~in_menu /\ menu' # menu) => Called("on_menu_enter")]_vars

\* Next was pressed with the menu closed after the menu had been left at
\* its Bluetooth item.
C26_Witness ==
  /\ AllIdle /\ last.op = "next_track"
  /\ ~in_menu /\ current_menu_item = 2

\* A decoder process is created in this step.
Spawned == \E p \in Pids : procs[p] # "alive" /\ procs'[p] = "alive"

\* C27: every spawn of a decoder by load_track_paused or load_track finds
\* the control FIFO made anew since the previous decoder was started, so
\* that no decoder is given a FIFO an earlier one has used.
C27_SpawnOnFreshFifo ==
  [][Spawned => fifo = "fresh"]_vars

\* Thread t, in a load, looks at the decoder it has started and finds it
\* dead: in the probe loop, at the final verification of load_track_paused,
\* or at the check of load_track.
FindsDead(t) ==
  /\ thr[t].pc \in {"ltp_probe", "ltp_final", "lt_check"}
  /\ mplayer_process # None
  /\ ~is_mplayer_alive
  /\ thr'[t] # thr[t]

\* C28: whenever a load finds the decoder it started dead, the diagnostic
\* capture has run by the time the load returns failure.
C28_DeadDecoderDiagnosed ==
  [][\A t \in Threads : FindsDead(t) => diagnosed']_vars

\* Thread t is inside send_command.
InSend(t) == thr[t].pc \in {"sc_direct", "sc_sudo"}

\* Thread t makes a step of send_command that returns to the caller.
SendReturns(t) ==
  /\ thr[t].pc \in {"pp_send", "ltp_pause", "sc_direct", "sc_sudo"}
  /\ thr'[t] # thr[t]
  /\ ~InSend(t)'

\* C29: send_command makes no delivery attempt when the decoder is not
\* alive; else it writes directly first and as the other user only after
\* the direct write failed, never more than these two; it makes no attempt
\* after one that succeeded, and returns failure on a live decoder only
\* after both attempts failed.
C29_AtMostTwoAttempts ==
  [][\A t \in Threads :
       /\ Len(attempts') <= 2
       /\ \A i \in 1..Len(attempts') :
            /\ attempts'[i].by = (IF i = 1 THEN "direct" ELSE "sudo")
            /\ i < Len(attempts') => ~attempts'[i].ok
       /\ (thr[t].pc \in {"pp_send", "ltp_pause"} /\ thr'[t] # thr[t]
              /\ ~is_mplayer_alive)
            => attempts' = <<>> /\ ~InSend(t)' /\ thr'[t].sent # "direct"
                 /\ thr'[t].sent # "fallback"
       /\ (SendReturns(t) /\ InSend(t))
            => IF thr'[t].sent \in {"direct", "fallback"}
               THEN attempts'[Len(attempts')].ok
               ELSE Len(attempts') = 2 /\ ~attempts'[1].ok /\ ~attempts'[2].ok
     ]_vars

\* play_pause got its command through at the second attempt.
C29_Witness ==
  /\ thr["timer"].pc = "pp_verify" /\ thr["timer"].sent = "fallback"
  /\ attempts = <<Attempt("direct", "raises"), Attempt("sudo", "ok")>>

\* stop_playback, on its own or inside shutdown or a load, has sent the
\* decoder the termination signal and has not yet dropped the handle.
TearingDown ==
  \E t \in Threads :
    /\ thr[t].pc = "sp_reset"
    /\ mplayer_process # None
    /\ procs[mplayer_process] = "killed"

\* C30: no display loop finishes a run of update_display while the decoder
\* is being torn down: the loops have ended before terminate() is called.
C30_NoUpdateDuringTeardown ==
  [][updating' < updating => ~TearingDown]_vars

\* C31: the button-poll thread makes its callbacks without ever being
\* inside a decoder load or stop itself: whatever the gesture and the menu
\* depth, it is never at a step of load_track or stop_playback.
C31_PollThreadNeverLoads ==
  thr["poll"].pc = "idle"

\* The steps at which a thread is in send_command or about to call it.
SendSteps == {"pp_send", "ltp_pause", "aoc_seek", "sc_direct", "sc_sudo"}

\* C32: whatever the gesture and the menu depth, the button-poll thread is
\* never in send_command; only the timer thread and the disc thread are.
C32_PollThreadNeverSends ==
  \A t \in Threads : thr[t].pc \in SendSteps => t \in {"timer", "disc"}

\* The poll thread is at the end of the longest call chain it has: Next with
\* the menu closed has spawned the decoder of the next track.
C32_Witness ==
  /\ thr["poll"].op = "next_track" /\ thr["poll"].pc = "lt_check"
  /\ ~in_menu

\* C33: the four menu flags always stand for one of Closed, Root, Submenu
\* and ActionMenu, also while handlers of the poll thread and of the timer
\* thread overlap: a submenu is open only inside the menu, the action list
\* and the track list only inside a submenu, and never both.
C33_FlagsEncodeOneLevel ==
  /\ in_submenu => in_menu
  /\ in_action_menu => in_submenu
  /\ in_tracks_menu => in_submenu
  /\ ~(in_action_menu /\ in_tracks_menu)

\* C34: a round of the display loop that runs update_display only reads:
\* it leaves current_track, the readiness fields, is_playing and the pause
\* fields, and with them the whole session, as they were.
C34_StatusReadIsPure ==
  [][(display_tick /\ ~stop_display) => UNCHANGED session]_vars

\* C35: the marker file is only a cache: whatever is written to it from
\* outside, a round of the display loop leaves current_track, the track
\* the controller reports and Previous and Next start from, as it was.
C35_MarkerIsAdvisory ==
  [][(display_tick /\ ~stop_display) => current_track' = current_track]_vars

\* C36: the current track is always a track of the disc:
\* 1 <= current_track <= total_tracks in every reachable state.
C36_TrackInRange == 1 <= current_track /\ current_track <= total_tracks

\* C37: at most one decoder process is alive at any time, and a decoder
\* that is alive is the one whose handle the controller holds, however the
\* loads of the disc event, poll and timer threads overlap.
C37_OneDecoderHeld ==
  /\ Cardinality({p \in Pids : procs[p] = "alive"}) <= 1
  /\ \A p \in Pids : procs[p] = "alive" => mplayer_process = p

\* C38: at most one display loop exists at any time: a loop started earlier
\* has ended before the next one runs.
C38_OneDisplayLoop == display_loops <= 1

\* No operation is in progress and the decoder of the last load is alive.
Settled == (\A t \in Threads : thr[t].pc = "idle") /\ is_mplayer_alive

SessionReady == mplayer_ready /\ current_track_start # None

\* C39: once a load has returned with its decoder alive, the session
\* becomes ready, unless the decoder ends or is stopped first.
C39_EventuallyReady == Settled ~> (SessionReady \/ ~is_mplayer_alive)

\* C40: with no operation in progress and the decoder alive, is_playing
\* says what the decoder does: it is True exactly when the decoder is not
\* paused.  So after a load_track_paused that succeeded the decoder is
\* paused.
C40_FlagAgreesWithDecoder == Settled => (is_playing <=> ~decoder_paused)
====
